---- MODULE Spec2Model ----
(***************************************************************************)
(* Pete-E adaptive plan engine: the storage contract (JsonDal,             *)
(* PostgresDal), the metric sync coordinator (run_sync,                    *)
(* run_sync_with_retries), the lift log, the progression engine and the    *)
(* recovery validator, modelled from the Python sources.                   *)
(*                                                                         *)
(* Conventions                                                             *)
(*  - a Python Optional value is a sequence of length 0 (None) or 1;       *)
(*  - a Python dict is a function; a missing key is a key outside DOMAIN;  *)
(*  - a JSON file is a record [exists, data];                              *)
(*  - a date is its day of the month in a fixed year and month, and        *)
(*    isoformat() yields the two zero-padded digits of the day (the        *)
(*    "YYYY-MM-" prefix is the same for all dates and is left out).        *)
(***************************************************************************)
EXTENDS Integers, Sequences, FiniteSets, TLC

\* ------------------------------------------------------------------ bounds

\* Number of consecutive calendar days the model ranges over.
NumDays == 2

\* Largest value of the retries argument of run_sync_with_retries.
MaxRetries == 2

\* Largest number of workout-log rows one Wger fetch returns.
MaxLogs == 1

\* Largest number of rows the lift log of one exercise is let to grow to.
MaxLiftLen == 2

\* Largest number of invocations of run_sync_with_retries in one behaviour.
MaxRuns == 2

\* ------------------------------------------------------------- variables

VARIABLES
    today,        \* date.today()
    dailyFiles,   \* knowledge/daily/<iso>.json : iso key -> summary
    historyFile,  \* knowledge/history.json     : [exists, data: iso key -> summary]
    liftLogFile,  \* knowledge/lift_log.json    : [exists, data: exercise -> Seq(entry)]
    pc,           \* position inside run_sync_with_retries
    retries,      \* its retries argument
    i,            \* its loop index
    result,       \* its return value (Optional BOOLEAN)
    calls,        \* run_sync calls made by the current invocation
    successes,    \* successful run_sync calls of the current invocation
    sleeps,       \* time.sleep calls made by the current invocation
    runs,         \* invocations of run_sync_with_retries so far
    lastAttempt,  \* Optional: what the latest run_sync call did
    prevSync,     \* Optional: inputs and effect of the run_sync call before it
    pgDaily,      \* table daily_summary : summary_date -> row
    pgStrength,   \* table strength_log  : rows in insertion order
    saved,        \* per date, the Optional summary of the latest save_daily_summary
    overwrote,    \* a save_daily_summary has replaced a different summary
    damaged,      \* the JSON files whose content is not valid JSON
    lastOp,       \* Optional: the latest storage operation run under a fault
    cfg,          \* the settings the engine reads (percent / years)
    week,         \* the training week being adjusted: its sessions in day order
    week0,        \* the week as it was loaded from the plan
    liftHistory,  \* lift_history: exercise id -> entries
    recentMetrics,   \* dal.get_historical_metrics(7)
    baselineMetrics, \* dal.get_historical_metrics(settings.BASELINE_DAYS)
    bodyAgeDelta, \* body_age_delta handed to check_recovery
    phase,        \* "planned", "progressed", "validated"
    progNotes,    \* the adjustments apply_progression returned
    recoveryNotes,\* the adjustments check_recovery returned
    validationLog,\* the save_validation_log calls made: [tag, adjustments]
    weekIn,       \* the week as it was handed to the latest operation
    ops,          \* the operations run on the week, in order
    startDate,    \* start_date handed to build_block (a day number)
    plan,         \* Optional: the plan build_block returned
    planRaised,   \* Optional: the exception build_block raised
    built,        \* build_block has been called
    planFiles,    \* plans_dir/plan_<start>.json : iso key -> plan
    weekFiles,    \* plans_dir/week<k>_<start>.json : <<k, iso>> -> week
    orchPc,       \* position of the orchestrator: "idle", "syncing", "returned"
    orchOp,       \* the request it serves: [name, week_index]
    orchPath,     \* the way the latest request ended
    orchRaised,   \* Optional: the exception the latest request raised
    currentStartDate, \* PeteE.current_start_date (Optional iso key)
    atCall,       \* storage, plans, weeks and validation log when the request began
    rpc,          \* per process, its position inside a JsonDal save
    rcall,        \* per process, Optional: the save call it runs
    rlocal,       \* per process, the dict its call loaded from the file
    returnedCalls,\* the save calls that have returned, in order
    overlapped    \* a save call began while another process was inside one

storeVars == <<dailyFiles, historyFile, liftLogFile>>
retryVars == <<pc, retries, i, result, calls, successes, sleeps, runs>>
syncVars == <<today, pc, retries, i, result, calls, successes, sleeps, runs,
              lastAttempt, prevSync>>
dalVars == <<pgDaily, pgStrength, saved, overwrote, damaged, lastOp>>
progVars == <<cfg, week, week0, liftHistory, recentMetrics, baselineMetrics,
              bodyAgeDelta, phase, progNotes, recoveryNotes, validationLog,
              weekIn, ops>>
planVars == <<startDate, plan, planRaised, built>>
orchVars == <<planFiles, weekFiles, orchPc, orchOp, orchPath, orchRaised,
              currentStartDate, atCall>>
raceVars == <<rpc, rcall, rlocal, returnedCalls, overlapped>>
extVars == <<planVars, orchVars, raceVars>>
otherVars == <<dalVars, progVars, extVars>>
vars == <<today, dailyFiles, historyFile, liftLogFile, pc, retries, i, result,
          calls, successes, sleeps, runs, lastAttempt, prevSync,
          pgDaily, pgStrength, saved, overwrote, damaged, lastOp,
          cfg, week, week0, liftHistory, recentMetrics, baselineMetrics,
          bodyAgeDelta, phase, progNotes, recoveryNotes, validationLog,
          weekIn, ops, startDate, plan, planRaised, built, planFiles, weekFiles,
          orchPc, orchOp, orchPath, orchRaised, currentStartDate, atCall,
          rpc, rcall, rlocal, returnedCalls, overlapped>>

\* ------------------------------------------------------ Python primitives

None == <<>>
Some(v) == <<v>>
EmptyDict == <<>>

DictPut(d, k, v) == [x \in (DOMAIN d) \cup {k} |-> IF x = k THEN v ELSE d[x]]

DictGet(d, k, default) == IF k \in DOMAIN d THEN d[k] ELSE default

Days == 9 .. (8 + NumDays)

\* date.isoformat(): zero-padded decimal digits of the day field.
isoformat(d) == <<d \div 10, d % 10>>

\* Python's str ordering: lexicographic by character.
RECURSIVE StrLess(_, _)
StrLess(a, b) ==
    IF a = <<>> THEN b # <<>>
    ELSE IF b = <<>> THEN FALSE
    ELSE IF Head(a) # Head(b) THEN Head(a) < Head(b)
    ELSE StrLess(Tail(a), Tail(b))

\* sorted(keys) for a set of str keys.
RECURSIVE sorted(_)
sorted(S) ==
    IF S = {} THEN <<>>
    ELSE LET m == CHOOSE x \in S : \A y \in S : ~StrLess(y, x)
         IN  <<m>> \o sorted(S \ {m})

\* seq[-n:] for n >= 0: the whole list for n = 0 (since -0 = 0).
SliceLast(seq, n) ==
    IF n = 0 \/ n >= Len(seq) THEN seq
    ELSE SubSeq(seq, Len(seq) - n + 1, Len(seq))

\* str(n) of an integer: a string, never equal to the integer itself.
str(n) == <<"str", n>>

\* ---------------------------------------------------------------- JsonDal

AbsentFile == [exists |-> FALSE, data |-> EmptyDict]

\* JsonDal._read_json: an absent file reads as {}.
read_json(file) == IF ~file.exists THEN EmptyDict ELSE file.data

\* JsonDal._write_json: the file now exists and holds data.
write_json(data) == [exists |-> TRUE, data |-> data]

\* The entry JsonDal.save_strength_log_entry appends.
JsonLiftEntry(log_date, reps, weight_kg, rir) ==
    [date |-> isoformat(log_date), reps |-> reps, weight |-> weight_kg, rir |-> rir]

\* An append that forgets the rows the loaded log held.
JsonAppendEntryFresh(log, exercise_id, log_date, reps, weight_kg, rir) ==
    DictPut(EmptyDict, str(exercise_id), <<JsonLiftEntry(log_date, reps, weight_kg, rir)>>)

\* JsonDal.save_strength_log_entry, lines 45-54, on the loaded log:
\* log.setdefault(key, []); log[key].append({...})
JsonAppendEntry(log, exercise_id, log_date, reps, weight_kg, rir) ==
    LET key == str(exercise_id)
        old == DictGet(log, key, <<>>)
    IN  DictPut(log, key, Append(old, JsonLiftEntry(log_date, reps, weight_kg, rir)))

\* JsonDal.save_strength_log_entry: load, setdefault, append, save.
JsonSaveStrengthLogEntry(file, exercise_id, log_date, reps, weight_kg, rir) ==
    write_json(JsonAppendEntry(read_json(file), exercise_id, log_date, reps, weight_kg, rir))

\* A save that starts from an empty history instead of the loaded one.
JsonSaveHistoryFresh(file, summary, day) ==
    write_json(DictPut(EmptyDict, isoformat(day), summary))

\* JsonDal.save_daily_summary, line 68, on the loaded history:
\* history[day.isoformat()] = summary
JsonPutSummary(history, summary, day) == DictPut(history, isoformat(day), summary)

\* JsonDal.save_daily_summary, the history.json half: load, assign, save.
JsonSaveHistory(file, summary, day) ==
    write_json(JsonPutSummary(read_json(file), summary, day))

\* JsonDal.save_daily_summary, the daily/<iso>.json half.
JsonSaveDaily(dir, summary, day) == DictPut(dir, isoformat(day), summary)

\* --------------------------------------------------------------- config.py

\* Settings defaults, fractions in percent.
PROGRESSION_INCREMENT == 5
PROGRESSION_DECREMENT == 5
RHR_ALLOWED_INCREASE == 10
SLEEP_ALLOWED_DECREASE == 85
BODY_AGE_ALLOWED_INCREASE == 2
GLOBAL_BACKOFF_FACTOR == 90
BASELINE_DAYS == 28

DefaultSettings ==
    [ PROGRESSION_INCREMENT     |-> PROGRESSION_INCREMENT,
      PROGRESSION_DECREMENT     |-> PROGRESSION_DECREMENT,
      RHR_ALLOWED_INCREASE      |-> RHR_ALLOWED_INCREASE,
      SLEEP_ALLOWED_DECREASE    |-> SLEEP_ALLOWED_DECREASE,
      BODY_AGE_ALLOWED_INCREASE |-> BODY_AGE_ALLOWED_INCREASE,
      GLOBAL_BACKOFF_FACTOR     |-> GLOBAL_BACKOFF_FACTOR ]

\* ------------------------------------------------- metric sources (inputs)

\* What WithingsClient.get_summary can return (body composition).
WithingsData == { [weight |-> Some(80)] }

\* What apple_client.get_apple_summary can return (nested keys flattened).
AppleData ==
    { [steps |-> Some(1000), heart_rate_resting |-> Some(50),
       sleep_asleep |-> Some(400), calories_total |-> Some(1900)] }

\* A fetch either raises (ok = FALSE, the local stays {}) or returns data.
FetchOutcomes(Data) ==
    {[ok |-> FALSE, data |-> EmptyDict]} \cup {[ok |-> TRUE, data |-> d] : d \in Data}

\* One workout-log row of WgerClient.get_logs, with the date it is filed under.
WgerLogRows(day) ==
    { [exercise_id |-> 1, weight |-> w, reps |-> 5, rir |-> Some(1), date |-> day]
        : w \in {100, 105} }

SeqsUpTo(S, n) == UNION { [1..k -> S] : k \in 0..n }

WgerOutcomes(day) ==
    {[ok |-> FALSE, logs |-> <<>>]}
        \cup {[ok |-> TRUE, logs |-> l] : l \in SeqsUpTo(WgerLogRows(day), MaxLogs)}

\* ------------------------------------------------------------- sync.py

\* lift_log.append_log_entry(dal=dal, ...) as run_sync calls it: one
\* save_strength_log_entry through the storage contract per workout-log row.
append_log_entry(file, log) ==
    JsonSaveStrengthLogEntry(file, log.exercise_id, log.date, log.reps, log.weight, log.rir)

\* The first n rows of logs appended in order.
RECURSIVE AppendLogs(_, _, _)
AppendLogs(file, logs, n) ==
    IF n = 0 THEN file
    ELSE append_log_entry(AppendLogs(file, logs, n - 1), logs[n])

\* run_sync: one attempt.  w, a, g are the outcomes of the three fetches;
\* failAt = k > 0 means the append of row k raises inside the Wger try block
\* (the rows before it are already written), failAt = 0 that none raises.
run_sync(daily, history, lift, day, w, a, g, failAt) ==
    LET failed1  == (IF w.ok THEN <<>> ELSE <<"Withings">>)
                        \o (IF a.ok THEN <<>> ELSE <<"Apple">>)
        summary  == [withings |-> w.data, apple |-> a.data]
        nApp     == IF ~g.ok THEN 0
                    ELSE IF failAt = 0 THEN Len(g.logs) ELSE failAt - 1
        wgerBad  == ~g.ok \/ failAt # 0
        failed   == failed1 \o (IF wgerBad THEN <<"Wger">> ELSE <<>>)
    IN  [ ok      |-> failed = <<>>,
          failed  |-> failed,
          daily   |-> JsonSaveDaily(daily, summary, day),
          history |-> JsonSaveHistory(history, summary, day),
          lift    |-> AppendLogs(lift, g.logs, nApp),
          writes  |-> <<"save_daily_summary">>
                          \o [k \in 1..nApp |-> "save_strength_log_entry"] ]

\* Rows held by the lift log over all exercises.
LiftRows(file) ==
    LET log == read_json(file)
        RECURSIVE Sum(_)
        Sum(S) == IF S = {} THEN 0
                  ELSE LET k == CHOOSE x \in S : TRUE
                       IN  Len(log[k]) + Sum(S \ {k})
    IN  Sum(DOMAIN log)

\* for i in range(retries): the number of iterations of the loop.
LoopBoundPlusOne(r) == r + 1
LoopBound(r) == r

\* Where run_sync_with_retries goes after an attempt: "return True" on
\* success, otherwise the warning and time.sleep(delay).
AfterAttemptNoReturn(ok) == "sleep"
AfterAttempt(ok) == IF ok THEN "done" ELSE "sleep"

\* What is remembered of a run_sync call.
AttemptRecord(r, day, w, a, g) ==
    [ok |-> r.ok, failed |-> r.failed, writes |-> r.writes,
     day |-> day, w |-> w, a |-> a, g |-> g]

\* The storage and the sync coordinator before anything has run.
InitStore ==
    /\ today = 9
    /\ dailyFiles = EmptyDict
    /\ historyFile = AbsentFile
    /\ liftLogFile = AbsentFile
    /\ pc = "idle"
    /\ retries = 0
    /\ i = 0
    /\ result = None
    /\ calls = 0
    /\ successes = 0
    /\ sleeps = 0
    /\ runs = 0
    /\ lastAttempt = None
    /\ prevSync = None
    /\ pgDaily = EmptyDict
    /\ pgStrength = <<>>
    /\ saved = [d \in Days |-> None]
    /\ overwrote = FALSE
    /\ damaged = {}
    /\ lastOp = None

\* No training week is loaded.
InitNoWeek ==
    /\ cfg = DefaultSettings
    /\ week = [week_index |-> 0, days |-> <<>>]
    /\ week0 = week
    /\ liftHistory = EmptyDict
    /\ recentMetrics = <<>>
    /\ baselineMetrics = <<>>
    /\ bodyAgeDelta = 0
    /\ phase = "planned"
    /\ progNotes = <<>>
    /\ recoveryNotes = <<>>
    /\ validationLog = <<>>
    /\ weekIn = week
    /\ ops = <<>>

\* The processes that use the flat-file backend at the same time.
Procs == {1, 2}

\* build_block has not been called.
InitNoPlan ==
    /\ startDate = 1
    /\ plan = None
    /\ planRaised = None
    /\ built = FALSE

\* A fresh PeteE: no request served, no cycle started, an empty plans directory.
InitOrchIdle ==
    /\ planFiles = EmptyDict
    /\ weekFiles = EmptyDict
    /\ orchPc = "idle"
    /\ orchOp = [name |-> "", week_index |-> 0]
    /\ orchPath = ""
    /\ orchRaised = None
    /\ currentStartDate = None
    /\ atCall = [store |-> <<EmptyDict, AbsentFile, AbsentFile>>, plans |-> EmptyDict,
                 weeks |-> EmptyDict, log |-> <<>>]

\* No process is inside a save call.
InitNoRace ==
    /\ rpc = [p \in Procs |-> "idle"]
    /\ rcall = [p \in Procs |-> None]
    /\ rlocal = [p \in Procs |-> EmptyDict]
    /\ returnedCalls = <<>>
    /\ overlapped = FALSE

InitExt == InitNoPlan /\ InitOrchIdle /\ InitNoRace

Init == InitStore /\ InitNoWeek /\ InitExt

\* The clock passes midnight.
NextDay ==
    /\ today + 1 \in Days
    /\ today' = today + 1
    /\ UNCHANGED <<storeVars, retryVars, lastAttempt, prevSync, otherVars>>

\* A caller (the orchestrator, the CLI) invokes run_sync_with_retries(dal, r, delay).
Call ==
    /\ pc \in {"idle", "done"}
    /\ runs < MaxRuns
    /\ \E r \in 0..MaxRetries : retries' = r
    /\ i' = 0
    /\ pc' = "loop"
    /\ result' = None
    /\ calls' = 0
    /\ successes' = 0
    /\ sleeps' = 0
    /\ runs' = runs + 1
    /\ UNCHANGED <<today, storeVars, lastAttempt, prevSync, otherVars>>

\* One loop iteration up to the test of success: success, failed = run_sync(dal).
Attempt ==
    /\ pc = "loop"
    /\ i < LoopBound(retries)
    /\ \E w \in FetchOutcomes(WithingsData), a \in FetchOutcomes(AppleData),
          g \in WgerOutcomes(today) :
         \E failAt \in 0..Len(g.logs) :
            LET r == run_sync(dailyFiles, historyFile, liftLogFile, today, w, a, g, failAt)
            IN  /\ LiftRows(r.lift) <= MaxLiftLen
                /\ dailyFiles' = r.daily
                /\ historyFile' = r.history
                /\ liftLogFile' = r.lift
                /\ lastAttempt' = Some(AttemptRecord(r, today, w, a, g))
                /\ calls' = calls + 1
                /\ successes' = successes + (IF r.ok THEN 1 ELSE 0)
                /\ pc' = AfterAttempt(r.ok)
                /\ result' = IF AfterAttempt(r.ok) = "done" THEN Some(TRUE) ELSE None
    /\ UNCHANGED <<today, retries, i, sleeps, runs, prevSync, otherVars>>

\* The rest of a failed iteration: log the warning, time.sleep(delay), next i.
Sleep ==
    /\ pc = "sleep"
    /\ sleeps' = sleeps + 1
    /\ i' = i + 1
    /\ pc' = "loop"
    /\ UNCHANGED <<today, storeVars, retries, result, calls, successes, runs,
                   lastAttempt, prevSync, otherVars>>

\* The loop is over: log "All attempts failed" and return False.
Exhaust ==
    /\ pc = "loop"
    /\ i >= LoopBound(retries)
    /\ result' = Some(FALSE)
    /\ pc' = "done"
    /\ UNCHANGED <<today, storeVars, retries, i, calls, successes, sleeps, runs,
                   lastAttempt, prevSync, otherVars>>

Next == NextDay \/ Call \/ Attempt \/ Sleep \/ Exhaust

Spec == Init /\ [][Next]_vars

\* ----- run_sync called directly, twice or more (resync of a day)

Sync ==
    /\ \E w \in FetchOutcomes(WithingsData), a \in FetchOutcomes(AppleData),
          g \in WgerOutcomes(today) :
         \E failAt \in 0..Len(g.logs) :
            LET r == run_sync(dailyFiles, historyFile, liftLogFile, today, w, a, g, failAt)
            IN  /\ LiftRows(r.lift) <= MaxLiftLen
                /\ dailyFiles' = r.daily
                /\ historyFile' = r.history
                /\ liftLogFile' = r.lift
                /\ lastAttempt' = Some(AttemptRecord(r, today, w, a, g))
                /\ prevSync' = IF lastAttempt = None THEN None
                               ELSE Some([att |-> lastAttempt[1], daily |-> dailyFiles,
                                          history |-> historyFile, lift |-> liftLogFile])
    /\ UNCHANGED <<today, retryVars, otherVars>>

NextResync == NextDay \/ Sync

SpecResync == Init /\ [][NextResync]_vars

\* ------------------------------------------------ JsonDal: read accessors

\* JsonDal.load_history
json_load_history(file) == read_json(file)

\* JsonDal.load_lift_log
json_load_lift_log(file) == read_json(file)

\* JsonDal.get_daily_summary: None when the daily file does not exist.
json_get_daily_summary(dir, target_date) ==
    IF isoformat(target_date) \notin DOMAIN dir THEN None
    ELSE Some(dir[isoformat(target_date)])

\* JsonDal.get_historical_metrics: [history[d] for d in sorted(history.keys())[-days:]]
json_get_historical_metrics(file, days) ==
    LET history     == json_load_history(file)
        sorted_days == SliceLast(sorted(DOMAIN history), days)
    IN  [k \in 1..Len(sorted_days) |-> history[sorted_days[k]]]

\* JsonDal.get_historical_data: every existing daily summary from start to end.
RECURSIVE json_get_historical_data(_, _, _)
json_get_historical_data(dir, start_date, end_date) ==
    IF start_date > end_date THEN <<>>
    ELSE json_get_daily_summary(dir, start_date)
             \o json_get_historical_data(dir, start_date + 1, end_date)

\* ------------------------------------------------------------ PostgresDal

\* The parameters of the INSERT ... ON CONFLICT of PostgresDal.save_daily_summary:
\* one column per recognised key, NULL for a key the summary lacks.
PgRow(summary) ==
    LET withings == DictGet(summary, "withings", EmptyDict)
        apple    == DictGet(summary, "apple", EmptyDict)
    IN  [ weight_kg            |-> DictGet(withings, "weight", None),
          body_fat_pct         |-> DictGet(withings, "fat_percent", None),
          muscle_mass_kg       |-> DictGet(withings, "muscle_mass", None),
          water_pct            |-> DictGet(withings, "water_percent", None),
          steps                |-> DictGet(apple, "steps", None),
          exercise_minutes     |-> DictGet(apple, "exercise_minutes", None),
          calories_active      |-> DictGet(apple, "calories_active", None),
          calories_resting     |-> DictGet(apple, "calories_resting", None),
          stand_minutes        |-> DictGet(apple, "stand_minutes", None),
          distance_m           |-> DictGet(apple, "distance_m", None),
          hr_resting           |-> DictGet(apple, "heart_rate_resting", None),
          hr_avg               |-> DictGet(apple, "heart_rate_avg", None),
          hr_max               |-> DictGet(apple, "heart_rate_max", None),
          hr_min               |-> DictGet(apple, "heart_rate_min", None),
          sleep_total_minutes  |-> DictGet(apple, "sleep_in_bed", None),
          sleep_asleep_minutes |-> DictGet(apple, "sleep_asleep", None),
          sleep_rem_minutes    |-> DictGet(apple, "sleep_rem", None),
          sleep_deep_minutes   |-> DictGet(apple, "sleep_deep", None),
          sleep_core_minutes   |-> DictGet(apple, "sleep_core", None),
          sleep_awake_minutes  |-> DictGet(apple, "sleep_awake", None) ]

\* PostgresDal.save_daily_summary: upsert of the row keyed by summary_date.
PgSaveDailySummary(table, summary, day) == DictPut(table, day, PgRow(summary))

\* PostgresDal._row_to_summary: every key present, None for a NULL column.
row_to_summary(row) ==
    [ withings |->
        [ weight        |-> row.weight_kg,
          fat_percent   |-> row.body_fat_pct,
          muscle_mass   |-> row.muscle_mass_kg,
          water_percent |-> row.water_pct ],
      apple |->
        [ steps              |-> row.steps,
          exercise_minutes   |-> row.exercise_minutes,
          calories_active    |-> row.calories_active,
          calories_resting   |-> row.calories_resting,
          stand_minutes      |-> row.stand_minutes,
          distance_m         |-> row.distance_m,
          heart_rate_resting |-> row.hr_resting,
          heart_rate_avg     |-> row.hr_avg,
          heart_rate_max     |-> row.hr_max,
          heart_rate_min     |-> row.hr_min,
          sleep_in_bed       |-> row.sleep_total_minutes,
          sleep_asleep       |-> row.sleep_asleep_minutes,
          sleep_rem          |-> row.sleep_rem_minutes,
          sleep_deep         |-> row.sleep_deep_minutes,
          sleep_core         |-> row.sleep_core_minutes,
          sleep_awake        |-> row.sleep_awake_minutes ] ]

\* PostgresDal.get_daily_summary: SELECT ... WHERE summary_date = %s.
pg_get_daily_summary(table, target_date) ==
    IF target_date \notin DOMAIN table THEN None
    ELSE Some(row_to_summary(table[target_date]))

\* PostgresDal.load_history: every row keyed by its ISO date.
pg_load_history(table) ==
    [k \in {isoformat(d) : d \in DOMAIN table} |->
        row_to_summary(table[CHOOSE d \in DOMAIN table : isoformat(d) = k])]

\* The dates of a set in ascending order (ORDER BY summary_date ASC).
RECURSIVE DatesAsc(_)
DatesAsc(S) ==
    IF S = {} THEN <<>>
    ELSE LET m == CHOOSE x \in S : \A y \in S : x <= y
         IN  <<m>> \o DatesAsc(S \ {m})

\* The last n elements of seq for LIMIT n on the descending order: none for n = 0.
LimitLast(seq, n) ==
    IF n >= Len(seq) THEN seq ELSE SubSeq(seq, Len(seq) - n + 1, Len(seq))

\* PostgresDal.get_historical_metrics: ORDER BY summary_date DESC LIMIT n, reversed.
pg_get_historical_metrics(table, days) ==
    LET ds == LimitLast(DatesAsc(DOMAIN table), days)
    IN  [k \in 1..Len(ds) |-> row_to_summary(table[ds[k]])]

\* PostgresDal.get_historical_data: WHERE summary_date BETWEEN start AND end, ascending.
pg_get_historical_data(table, start_date, end_date) ==
    LET ds == DatesAsc({d \in DOMAIN table : start_date <= d /\ d <= end_date})
    IN  [k \in 1..Len(ds) |-> row_to_summary(table[ds[k]])]

\* PostgresDal.save_strength_log_entry: a plain INSERT of one set.
PgSaveStrengthLogEntry(table, exercise_id, log_date, reps, weight_kg, rir) ==
    Append(table, [summary_date |-> log_date, exercise_id |-> exercise_id,
                   reps |-> reps, weight_kg |-> weight_kg, rir |-> rir])

\* The rows of seq at the indices in S, in order.
RECURSIVE SelectRows(_, _, _)
SelectRows(seq, S, k) ==
    IF k > Len(seq) THEN <<>>
    ELSE (IF k \in S THEN <<seq[k]>> ELSE <<>>) \o SelectRows(seq, S, k + 1)

\* PostgresDal.load_lift_log: rows ORDER BY summary_date ASC, grouped by exercise
\* (rows of one date are taken in insertion order).
pg_load_lift_log(table) ==
    LET dates   == DatesAsc({table[k].summary_date : k \in DOMAIN table})
        RECURSIVE Ordered(_)
        Ordered(k) ==
            IF k > Len(dates) THEN <<>>
            ELSE SelectRows(table, {j \in DOMAIN table : table[j].summary_date = dates[k]}, 1)
                     \o Ordered(k + 1)
        rows    == Ordered(1)
        Entry(r) == [date |-> isoformat(r.summary_date), reps |-> r.reps,
                     weight |-> r.weight_kg, rir |-> r.rir]
    IN  [key \in {str(table[k].exercise_id) : k \in DOMAIN table} |->
            LET mine == SelectRows(rows,
                                   {j \in DOMAIN rows : str(rows[j].exercise_id) = key}, 1)
            IN  [k \in 1..Len(mine) |-> Entry(mine[k])]]

\* --------------------------------------------------------- lift_log.py

\* The entry lift_log.append_log_entry builds: rir only when it is given.
LiftLogEntry(weight, reps, sets, rir, log_date) ==
    IF rir = None
    THEN [date |-> log_date, weight |-> weight, reps |-> reps, sets |-> sets]
    ELSE [date |-> log_date, weight |-> weight, reps |-> reps, sets |-> sets,
          rir |-> rir[1]]

\* sorted(entries, key=lambda x: x["date"]): stable, by str order of the dates.
RECURSIVE SortedByDate(_)
SortedByDate(seq) ==
    IF seq = <<>> THEN <<>>
    ELSE LET front == SortedByDate(SubSeq(seq, 1, Len(seq) - 1))
             e     == seq[Len(seq)]
             n     == Cardinality({k \in 1..Len(front) : ~StrLess(e.date, front[k].date)})
         IN  SubSeq(front, 1, n) \o <<e>> \o SubSeq(front, n + 1, Len(front))

\* lift_log.append_log_entry: load, append, sort the exercise's list, save.
lift_log_append_log_entry(file, exercise_id, weight, reps, sets, rir, log_date) ==
    LET log == read_json(file)
        old == DictGet(log, str(exercise_id), <<>>)
    IN  write_json(DictPut(log, str(exercise_id),
                   SortedByDate(Append(old, LiftLogEntry(weight, reps, sets, rir, log_date)))))

\* ----------------------------------------------- storage contract, both backends

\* The summaries handed to save_daily_summary.
Summaries ==
    { [withings |-> [weight |-> Some(80)], apple |-> [steps |-> Some(1000)]],
      [withings |-> EmptyDict, apple |-> EmptyDict] }
    \cup { [withings |-> w, apple |-> a] : w \in WithingsData, a \in AppleData }

\* Names of the JSON files that can be damaged.
HistoryFile == [file |-> "history", day |-> 0]
DailyFile(day) == [file |-> "daily", day |-> day]

\* dal.save_daily_summary(summary, day) applied to the flat-file and to the
\* relational backend.
SaveDailySummary ==
    /\ HistoryFile \notin damaged
    /\ \E summary \in Summaries, day \in Days :
        /\ dailyFiles' = JsonSaveDaily(dailyFiles, summary, day)
        /\ historyFile' = JsonSaveHistory(historyFile, summary, day)
        /\ pgDaily' = PgSaveDailySummary(pgDaily, summary, day)
        /\ saved' = [saved EXCEPT ![day] = Some(summary)]
        /\ overwrote' = (overwrote \/ (saved[day] # None /\ saved[day] # Some(summary)))
        /\ damaged' = damaged \ {DailyFile(day)}
    /\ UNCHANGED <<liftLogFile, pgStrength, lastOp, syncVars, progVars, extVars>>

\* dal.save_strength_log_entry(exercise_id, log_date, reps, weight_kg, rir) applied
\* to both backends.
SaveStrengthLogEntry(Exercises, Rirs) ==
    /\ LiftRows(liftLogFile) < MaxLiftLen
    /\ \E exercise_id \in Exercises, log_date \in Days, rir \in Rirs :
        /\ liftLogFile' =
              JsonSaveStrengthLogEntry(liftLogFile, exercise_id, log_date, 5, 100, rir)
        /\ pgStrength' =
              PgSaveStrengthLogEntry(pgStrength, exercise_id, log_date, 5, 100, rir)
    /\ UNCHANGED <<dailyFiles, historyFile, pgDaily, saved, overwrote, damaged, lastOp,
                   syncVars, progVars, extVars>>

SaveOneExerciseLog == SaveStrengthLogEntry({1}, {Some(1)})

NextDal == SaveDailySummary \/ SaveOneExerciseLog

SpecDal == Init /\ [][NextDal]_vars

\* ----- the lift log file written by both of its writers

SaveAnyExerciseLog == SaveStrengthLogEntry({1, 2}, {None, Some(1)})

\* lift_log.append_log_entry(exercise_id, weight, reps, sets, rir, log_date)
LiftLogAppend ==
    /\ LiftRows(liftLogFile) < MaxLiftLen
    /\ \E exercise_id \in {1, 2}, log_date \in Days, rir \in {None, Some(1)} :
        liftLogFile' = lift_log_append_log_entry(liftLogFile, exercise_id, 100, 5, 3,
                                                 rir, isoformat(log_date))
    /\ UNCHANGED <<dailyFiles, historyFile, dalVars, syncVars, progVars, extVars>>

NextLift == SaveAnyExerciseLog \/ LiftLogAppend

SpecLift == Init /\ [][NextLift]_vars

\* ----- storage operations under faults

\* JsonDal._read_json on a file: {} for an absent file, otherwise open() and
\* json.load(), whose exceptions are not caught anywhere in JsonDal.
JsonReadOutcome(exists, ioError, malformed) ==
    IF ~exists THEN [fault |-> "absent", outcome |-> "returned"]
    ELSE IF ioError THEN [fault |-> "io_error", outcome |-> "raised OSError"]
    ELSE IF malformed THEN [fault |-> "malformed", outcome |-> "raised JSONDecodeError"]
    ELSE [fault |-> "none", outcome |-> "returned"]

\* The body of a PostgresDal method: try: with pool.connection() ... except
\* Exception: log_message(...), then the default return value.
PgOutcome(connectionLost) ==
    IF connectionLost THEN [fault |-> "connection_lost", outcome |-> "returned"]
    ELSE [fault |-> "none", outcome |-> "returned"]

OpRecord(backend, op, o, value) ==
    [backend |-> backend, op |-> op, fault |-> o.fault, outcome |-> o.outcome,
     value |-> value]

\* A JSON file is left with invalid content (a write cut short by a crash).
Damage ==
    /\ \E f \in {HistoryFile} \cup {DailyFile(d) : d \in Days} :
        /\ f \notin damaged
        /\ IF f = HistoryFile THEN historyFile.exists
           ELSE isoformat(f.day) \in DOMAIN dailyFiles
        /\ damaged' = damaged \cup {f}
    /\ UNCHANGED <<dailyFiles, historyFile, liftLogFile, pgDaily, pgStrength, saved,
                   overwrote, lastOp, syncVars, progVars, extVars>>

\* JsonDal.load_history() with or without an I/O error.
JsonLoadHistory ==
    /\ \E ioError \in BOOLEAN :
        LET o == JsonReadOutcome(historyFile.exists, ioError, HistoryFile \in damaged)
        IN  lastOp' = Some(OpRecord("json", "load_history", o,
                       IF o.outcome = "returned" THEN Some(json_load_history(historyFile))
                       ELSE None))
    /\ UNCHANGED <<storeVars, pgDaily, pgStrength, saved, overwrote, damaged, syncVars,
                   progVars, extVars>>

\* JsonDal.get_daily_summary(d) with or without an I/O error.
JsonGetDailySummary ==
    /\ \E d \in Days, ioError \in BOOLEAN :
        LET o == JsonReadOutcome(isoformat(d) \in DOMAIN dailyFiles, ioError,
                                 DailyFile(d) \in damaged)
        IN  lastOp' = Some(OpRecord("json", "get_daily_summary", o,
                       IF o.outcome = "returned" THEN json_get_daily_summary(dailyFiles, d)
                       ELSE None))
    /\ UNCHANGED <<storeVars, pgDaily, pgStrength, saved, overwrote, damaged, syncVars,
                   progVars, extVars>>

\* PostgresDal.get_daily_summary(d) with the connection up or lost.
PgGetDailySummary ==
    /\ \E d \in Days, connectionLost \in BOOLEAN :
        LET o == PgOutcome(connectionLost)
        IN  lastOp' = Some(OpRecord("postgres", "get_daily_summary", o,
                       IF connectionLost THEN None ELSE pg_get_daily_summary(pgDaily, d)))
    /\ UNCHANGED <<storeVars, pgDaily, pgStrength, saved, overwrote, damaged, syncVars,
                   progVars, extVars>>

\* PostgresDal.save_daily_summary(summary, day) with the connection lost: the
\* exception is logged and the call returns; no row is written.
PgSaveDailySummaryLost ==
    /\ \E summary \in Summaries, day \in Days :
        lastOp' = Some(OpRecord("postgres", "save_daily_summary", PgOutcome(TRUE), None))
    /\ UNCHANGED <<storeVars, pgDaily, pgStrength, saved, overwrote, damaged, syncVars,
                   progVars, extVars>>

NextFault ==
    \/ SaveDailySummary
    \/ Damage
    \/ JsonLoadHistory
    \/ JsonGetDailySummary
    \/ PgGetDailySummary
    \/ PgSaveDailySummaryLost

SpecFault == Init /\ [][NextFault]_vars

\* ---------------------------------------------------------- progression.py
\* Weights are integers in units of 0.0001 kg (so a value rounded to 2 decimals is
\* a multiple of 100), RIR values are in halves, settings fractions in percent.
\* A float the code computes is the exact rational [num, den] with den > 0;
\* round(x, 2) rounds that rational to the nearest hundredth, ties to even.

Kg(k) == k * 10000

RECURSIVE GCD(_, _)
GCD(a, b) == IF b = 0 THEN a ELSE GCD(b, a % b)

\* The rational n / d (d > 0) in lowest terms.
Rat(n, d) ==
    LET g == GCD(IF n < 0 THEN 0 - n ELSE n, d)
    IN  [num |-> n \div g, den |-> d \div g]

RECURSIVE SumSeq(_)
SumSeq(values) ==
    IF values = <<>> THEN 0 ELSE Head(values) + SumSeq(Tail(values))

\* [x for x in optionals if x is not None]
NotNone(optionals) ==
    LET kept == SelectSeq(optionals, LAMBDA o : o # None)
    IN  [k \in 1 .. Len(kept) |-> kept[k][1]]

\* statistics.mean(values), values not empty
mean(values) == Rat(SumSeq(values), Len(values))

\* progression._average: the mean of a list, or 0.0 if empty
average(values) == IF values = <<>> THEN Rat(0, 1) ELSE mean(values)

\* bool(x) of a float
Truthy(x) == x.num # 0

RatLess(a, b) == a.num * b.den < b.num * a.den
RatLeq(a, b) == a.num * b.den <= b.num * a.den
RatTimes(a, b) == Rat(a.num * b.num, a.den * b.den)
RatPlus(a, b) == Rat(a.num * b.den + b.num * a.den, a.den * b.den)

\* Python's round-half-even of the rational a / b (b > 0) to an integer.
RoundHalfEven(a, b) ==
    LET q == a \div b
        r == a % b
    IN  IF 2 * r < b THEN q
        ELSE IF 2 * r > b THEN q + 1
        ELSE IF q % 2 = 0 THEN q ELSE q + 1

\* round(x, 2) of a weight x = [num, den] in 0.0001 kg: a multiple of 0.01 kg.
round2(x) == 100 * RoundHalfEven(x.num, x.den * 100)

\* The metric lists of lines 27-38 for one window: m["apple"]["heart_rate"]
\* ["resting"] and m["apple"]["sleep"]["asleep"], None where any key is missing.
RestingOf(metrics) == NotNone([k \in DOMAIN metrics |-> metrics[k].resting])
AsleepOf(metrics) == NotNone([k \in DOMAIN metrics |-> metrics[k].asleep])

\* Lines 40-43 with the RHR comparison reversed: poor when the 7-day RHR is not
\* above the limit.
recovery_good_flipped(settings, recent_metrics, baseline_metrics) ==
    LET rhr_7 == average(RestingOf(recent_metrics))
        rhr_baseline == average(RestingOf(baseline_metrics))
    IN  RatLess(RatTimes(rhr_baseline, Rat(100 + settings.RHR_ALLOWED_INCREASE, 100)),
                rhr_7)

\* Lines 40-43: recovery_good.
recovery_good(settings, recent_metrics, baseline_metrics) ==
    LET rhr_7 == average(RestingOf(recent_metrics))
        sleep_7 == average(AsleepOf(recent_metrics))
        rhr_baseline == average(RestingOf(baseline_metrics))
        sleep_baseline == average(AsleepOf(baseline_metrics))
    IN  ~ ( /\ Truthy(rhr_baseline) /\ Truthy(sleep_baseline)
            /\ \/ RatLess(RatTimes(rhr_baseline,
                                   Rat(100 + settings.RHR_ALLOWED_INCREASE, 100)),
                          rhr_7)
               \/ RatLess(sleep_7,
                          RatTimes(sleep_baseline,
                                   Rat(settings.SLEEP_ALLOWED_DECREASE, 100))) )

\* entries[-4:]
LastEntries(entries) == SliceLast(entries, 4)

\* f"{x:.1f}": x rounded to one decimal, as the count of tenths ("7.5" is 75).
format1f(x) == RoundHalfEven(x.num * 10, x.den)

\* avg_rir <= 1, avg_rir >= 2, avg_rir <= 2 for the mean of rirs kept in halves.
AvgRirLeq1(rirs) == SumSeq(rirs) <= 2 * Len(rirs)
AvgRirGeq2(rirs) == SumSeq(rirs) >= 4 * Len(rirs)
AvgRirLeq2(rirs) == SumSeq(rirs) <= 4 * Len(rirs)

\* Lines 80-84 without the bias: the increment stays as configured.
rir_bias_none(settings, inc, rirs) == inc

\* Lines 80-84 with the bias applied whether or not RIR was recorded.
rir_bias_always(settings, inc, rirs) ==
    RatPlus(inc, Rat(settings.PROGRESSION_INCREMENT, 200))

\* Lines 80-84: if use_rir: avg_rir <= 1 adds half the configured increment,
\* avg_rir >= 2 halves the increment.
rir_bias(settings, inc, rirs) ==
    IF rirs # <<>> /\ AvgRirLeq1(rirs)
      THEN RatPlus(inc, Rat(settings.PROGRESSION_INCREMENT, 200))
    ELSE IF rirs # <<>> /\ AvgRirGeq2(rirs) THEN RatTimes(inc, Rat(1, 2))
    ELSE inc

\* Line 87 left out: the increment is not halved under poor recovery.
recovery_inc_undamped(inc, good) == inc

\* Lines 86-87: if not recovery_good: inc /= 2
recovery_inc(inc, good) == IF good THEN inc ELSE RatTimes(inc, Rat(1, 2))

\* Lines 86, 88: if not recovery_good: dec *= 1.5
recovery_dec(dec, good) == IF good THEN dec ELSE RatTimes(dec, Rat(3, 2))

\* Line 94 with the RIR test left out: avg_weight >= target
progresses_on_weight(avg_weight, target, rirs) == RatLeq(target, avg_weight)

\* Line 94: avg_weight >= target and (not use_rir or avg_rir <= 2)
progresses(avg_weight, target, rirs) ==
    RatLeq(target, avg_weight) /\ (rirs = <<>> \/ AvgRirLeq2(rirs))

\* Line 99 with the RIR test left out: avg_weight < target
backs_off_on_weight(avg_weight, target, rirs) == RatLess(avg_weight, target)

\* Line 99: avg_weight < target or (use_rir and avg_rir > 2)
backs_off(avg_weight, target, rirs) ==
    RatLess(avg_weight, target) \/ (rirs # <<>> /\ ~AvgRirLeq2(rirs))

\* Line 56 with the test inverted away: history is never taken as missing.
no_history_never(entries) == FALSE

\* Line 56: if not entries
no_history(entries) == entries = <<>>

\* Lines 52-107 for one exercise: the exercise afterwards and its one note.
ProgressExercise(settings, ex, lift_history, good) ==
    LET entries == DictGet(lift_history, str(ex.id), <<>>)
        last_entries == LastEntries(entries)
        weights == NotNone([k \in DOMAIN last_entries |-> last_entries[k].weight])
        rirs == NotNone([k \in DOMAIN last_entries |-> last_entries[k].rir])
        kept == IF ex.weight_target = None THEN 0 ELSE ex.weight_target[1]
        avg_weight == mean(weights)
        use_rir == rirs # <<>>
        target == IF ex.weight_target = None THEN avg_weight
                  ELSE Rat(ex.weight_target[1], 1)
        inc == recovery_inc(rir_bias(settings,
                                     Rat(settings.PROGRESSION_INCREMENT, 100), rirs),
                            good)
        dec == recovery_dec(Rat(settings.PROGRESSION_DECREMENT, 100), good)
        detail == [use_rir |-> use_rir,
                   avg_rir |-> IF use_rir
                                 THEN Some(format1f(Rat(SumSeq(rirs), 2 * Len(rirs))))
                               ELSE None,
                   recovery |-> IF good THEN "good" ELSE "poor"]
        note(kind, pct) == [name |-> ex.id, kind |-> kind, pct |-> pct,
                            detail |-> detail]
    IN  IF no_history(entries)
          THEN [ex |-> ex,
                note |-> [name |-> ex.id, kind |-> "no history", kept |-> kept]]
        ELSE IF weights = <<>>
          THEN [ex |-> ex,
                note |-> [name |-> ex.id, kind |-> "no valid weight data",
                          kept |-> kept]]
        ELSE IF progresses(avg_weight, target, rirs)
          THEN [ex |-> [ex EXCEPT !.weight_target =
                           Some(round2(RatTimes(target, RatPlus(Rat(1, 1), inc))))],
                note |-> note("+", Some(format1f(RatTimes(inc, Rat(100, 1)))))]
        ELSE IF backs_off(avg_weight, target, rirs)
          THEN [ex |-> [ex EXCEPT !.weight_target =
                           Some(round2(RatTimes(target,
                                RatPlus(Rat(1, 1), Rat(0 - dec.num, dec.den)))))],
                note |-> note("-", Some(format1f(RatTimes(dec, Rat(100, 1)))))]
        ELSE [ex |-> ex, note |-> note("no change", None)]

\* session.get("exercises", [])
ExercisesOf(session) ==
    IF "exercises" \in DOMAIN session THEN session.exercises ELSE <<>>

RECURSIVE Flatten(_)
Flatten(seqs) == IF seqs = <<>> THEN <<>> ELSE Head(seqs) \o Flatten(Tail(seqs))

\* Lines 48-107 for one session.
ProgressSession(settings, session, lift_history, good) ==
    IF session.type # "weights" THEN [session |-> session, notes |-> <<>>]
    ELSE LET exs == ExercisesOf(session)
             done == [k \in DOMAIN exs |->
                         ProgressExercise(settings, exs[k], lift_history, good)]
         IN  [session |-> IF "exercises" \in DOMAIN session
                            THEN [session EXCEPT !.exercises =
                                     [k \in DOMAIN exs |-> done[k].ex]]
                          ELSE session,
              notes |-> [k \in DOMAIN exs |-> done[k].note]]

\* apply_progression(dal, week, lift_history): (week, adjustments).
apply_progression(settings, recent_metrics, baseline_metrics, wk, lift_history) ==
    LET good == recovery_good(settings, recent_metrics, baseline_metrics)
        done == [d \in DOMAIN wk.days |->
                    [s \in DOMAIN wk.days[d] |->
                        ProgressSession(settings, wk.days[d][s], lift_history, good)]]
    IN  [week |-> [wk EXCEPT !.days =
                      [d \in DOMAIN wk.days |->
                          [s \in DOMAIN wk.days[d] |-> done[d][s].session]]],
         adjustments |->
             Flatten([d \in DOMAIN wk.days |->
                         Flatten([s \in DOMAIN wk.days[d] |-> done[d][s].notes])])]

\* ----------------------------------------------------------- validation.py

\* A save that skips a pass without adjustments.
save_validation_log_if_any(log, call) ==
    IF call.adjustments = <<>> THEN log ELSE Append(log, call)

\* JsonDal.save_validation_log(tag, adjustments): one line handed to the central
\* log, f"{tag}: {adjustments}".
save_validation_log(log, call) == Append(log, call)

\* orchestrator.PeteE._baseline / _average over the values of a window:
\* sum(vals) / len(vals) if vals else None
orch_average(values) == IF values = <<>> THEN None ELSE Some(mean(values))

\* bool(x) of an Optional float
TruthyOpt(x) == x # None /\ Truthy(x[1])

\* Position <<day, session, exercise>> p is visited before q by the nested loops.
PosLess(p, q) ==
    \/ p[1] < q[1]
    \/ p[1] = q[1] /\ p[2] < q[2]
    \/ p[1] = q[1] /\ p[2] = q[2] /\ p[3] < q[3]

\* The places where lines 68-72 raise KeyError: a weights session without
\* "exercises" (position 0 of the session), an exercise without "weight_target".
KeyErrorAt(wk) ==
    UNION { UNION { IF wk.days[d][s].type # "weights" THEN {}
                    ELSE IF "exercises" \notin DOMAIN wk.days[d][s] THEN {<<d, s, 0>>}
                    ELSE { <<d, s, e>> : e \in
                             { k \in DOMAIN wk.days[d][s].exercises :
                                 wk.days[d][s].exercises[k].weight_target = None } }
                  : s \in DOMAIN wk.days[d] }
          : d \in DOMAIN wk.days }

\* The factor applied twice.
BackOffTwice(settings, weight_target) ==
    LET once == (weight_target[1] * settings.GLOBAL_BACKOFF_FACTOR) \div 100
    IN  Some((once * settings.GLOBAL_BACKOFF_FACTOR) \div 100)

\* ex["weight_target"] *= settings.GLOBAL_BACKOFF_FACTOR: no rounding; exact in
\* 0.0001 kg for a target that is a multiple of 0.01 kg.
BackOff(settings, weight_target) ==
    Some((weight_target[1] * settings.GLOBAL_BACKOFF_FACTOR) \div 100)

\* check_recovery(dal, week, current_start_date, rhr_baseline, rhr_last_week,
\* sleep_baseline, sleep_last_week, body_age_delta): the week as the in-place
\* updates leave it, the adjustments, whether KeyError was raised, and the
\* save_validation_log call made (none when it raised before line 75).
check_recovery(settings, wk, current_start_date, rhr_baseline, rhr_last_week, sleep_baseline, sleep_last_week, body_age_delta) ==
    LET rhrRule ==
            /\ TruthyOpt(rhr_baseline) /\ TruthyOpt(rhr_last_week)
            /\ RatLess(RatTimes(rhr_baseline[1],
                                Rat(100 + settings.RHR_ALLOWED_INCREASE, 100)),
                       rhr_last_week[1])
        sleepRule ==
            /\ TruthyOpt(sleep_baseline) /\ TruthyOpt(sleep_last_week)
            /\ RatLess(sleep_last_week[1],
                       RatTimes(sleep_baseline[1],
                                Rat(settings.SLEEP_ALLOWED_DECREASE, 100)))
        ageRule == body_age_delta > settings.BODY_AGE_ALLOWED_INCREASE
        adjustments ==
            (IF rhrRule THEN <<[rule |-> "rhr", limit |-> settings.RHR_ALLOWED_INCREASE]>>
             ELSE <<>>)
            \o (IF sleepRule
                  THEN <<[rule |-> "sleep", limit |-> settings.SLEEP_ALLOWED_DECREASE]>>
                ELSE <<>>)
            \o (IF ageRule
                  THEN <<[rule |-> "body_age",
                          limit |-> settings.BODY_AGE_ALLOWED_INCREASE]>>
                ELSE <<>>)
        global_backoff == rhrRule \/ sleepRule \/ ageRule
        errors == KeyErrorAt(wk)
        raised == global_backoff /\ errors # {}
        first == CHOOSE p \in errors : \A q \in errors : p = q \/ PosLess(p, q)
        reached(p) == global_backoff /\ (~raised \/ PosLess(p, first))
        scaled ==
            [d \in DOMAIN wk.days |->
                [s \in DOMAIN wk.days[d] |->
                    LET session == wk.days[d][s]
                    IN  IF session.type = "weights" /\ "exercises" \in DOMAIN session
                          THEN [session EXCEPT !.exercises =
                                   [e \in DOMAIN session.exercises |->
                                       IF reached(<<d, s, e>>)
                                         THEN [session.exercises[e] EXCEPT
                                                 !.weight_target = BackOff(settings, @)]
                                       ELSE session.exercises[e]]]
                        ELSE session]]
    IN  [week |-> [wk EXCEPT !.days = scaled],
         adjustments |-> adjustments,
         raised |-> raised,
         log |-> IF raised THEN None
                 ELSE Some([tag |-> [week_index |-> wk.week_index,
                                     current_start_date |-> current_start_date],
                            adjustments |-> adjustments])]

\* ----- one week taken through progression and validation

Rep(x, n) == [k \in 1 .. n |-> x]

MetricDay(resting, asleep) == [resting |-> resting, asleep |-> asleep]

\* What get_historical_metrics(7) can return.
RecentWindows ==
    { <<>>,
      Rep(MetricDay(Some(50), Some(400)), 7),
      Rep(MetricDay(Some(60), Some(400)), 7),
      Rep(MetricDay(Some(50), Some(300)), 7),
      Rep(MetricDay(Some(50), None), 7),
      Rep(MetricDay(None, None), 7) }

\* What get_historical_metrics(settings.BASELINE_DAYS) can return.
BaselineWindows ==
    { <<>>,
      Rep(MetricDay(Some(50), Some(400)), BASELINE_DAYS),
      Rep(MetricDay(Some(50), None), BASELINE_DAYS) }

LiftEntry(weight, rir) == [weight |-> weight, rir |-> rir]

\* Lift logs of exercise 1 (RIR in halves); exercise 2 is logged in one of them.
LiftHistories ==
    LET of1(entries) == DictPut(EmptyDict, str(1), entries)
        at100(rir) == LiftEntry(Some(Kg(100)), rir)
    IN  { EmptyDict,
          of1(<<>>),
          of1(<<at100(Some(1)), at100(Some(2)), at100(Some(2)), at100(Some(1))>>),
          of1(Rep(at100(Some(3)), 4)),
          of1(Rep(at100(Some(4)), 4)),
          of1(Rep(at100(Some(6)), 4)),
          of1(Rep(at100(None), 4)),
          of1(<<at100(Some(1)), at100(None), at100(None), at100(None)>>),
          of1(Rep(LiftEntry(Some(Kg(90)), None), 4)),
          of1(Rep(LiftEntry(Some(Kg(90)), Some(1)), 4)),
          of1(Rep(LiftEntry(Some(Kg(90)), Some(4)), 4)),
          of1(Rep(LiftEntry(None, Some(1)), 4)),
          of1(<<LiftEntry(Some(Kg(60)), Some(6))>> \o Rep(at100(Some(1)), 4)),
          DictPut(of1(Rep(at100(None), 4)), str(2),
                  Rep(LiftEntry(Some(Kg(40)), None), 2)) }

\* Plan weeks: a day with a weights session of two exercises, a day with the
\* HIIT session plan_builder emits, a rest day.
Weeks ==
    { [week_index |-> 1,
       days |-> << << [type |-> "weights", intensity |-> "heavy",
                       exercises |-> << [id |-> 1, weight_target |-> t],
                                        [id |-> 2, weight_target |-> Some(Kg(50))] >>] >>,
                   << [type |-> "hiit"] >>,
                   << [type |-> "rest"] >> >>]
      : t \in {None, Some(100), Some(Kg(100))} }

\* The settings a deployment can configure: pydantic accepts any float.
ConfiguredSettings ==
    { [DefaultSettings EXCEPT !.PROGRESSION_DECREMENT = d, !.GLOBAL_BACKOFF_FACTOR = f]
      : d \in {PROGRESSION_DECREMENT, 70, 100}, f \in {GLOBAL_BACKOFF_FACTOR, 0} }
    \cup { [DefaultSettings EXCEPT !.PROGRESSION_INCREMENT = 10] }

InitProg ==
    /\ InitStore
    /\ InitExt
    /\ cfg \in ConfiguredSettings
    /\ week \in Weeks
    /\ week0 = week
    /\ liftHistory \in LiftHistories
    /\ recentMetrics \in RecentWindows
    /\ baselineMetrics \in BaselineWindows
    /\ bodyAgeDelta \in {0, 3}
    /\ phase = "planned"
    /\ progNotes = <<>>
    /\ recoveryNotes = <<>>
    /\ validationLog = <<>>
    /\ weekIn = week
    /\ ops = <<>>

\* week, prog_adjustments = progression.apply_progression(dal, week, lift_history)
ApplyProgression ==
    /\ phase = "planned"
    /\ LET r == apply_progression(cfg, recentMetrics, baselineMetrics, week, liftHistory)
       IN  /\ week' = r.week
           /\ progNotes' = r.adjustments
    /\ phase' = "progressed"
    /\ weekIn' = week
    /\ ops' = Append(ops, "apply_progression")
    /\ UNCHANGED <<cfg, week0, liftHistory, recentMetrics, baselineMetrics, bodyAgeDelta,
                   recoveryNotes, validationLog, storeVars, syncVars, dalVars, extVars>>

\* week, recovery_adjustments = validation.check_recovery(dal, week, start, ...),
\* with the averages computed the way the orchestrator computes them.
CheckRecovery ==
    /\ phase \in {"planned", "progressed"}
    /\ LET r == check_recovery(cfg, week, isoformat(today),
                               orch_average(RestingOf(baselineMetrics)),
                               orch_average(RestingOf(recentMetrics)),
                               orch_average(AsleepOf(baselineMetrics)),
                               orch_average(AsleepOf(recentMetrics)),
                               bodyAgeDelta)
       IN  /\ week' = r.week
           /\ recoveryNotes' = IF r.raised THEN recoveryNotes ELSE r.adjustments
           /\ validationLog' = IF r.log = None THEN validationLog
                                ELSE save_validation_log(validationLog, r.log[1])
           /\ phase' = IF r.raised THEN "raised" ELSE "validated"
    /\ weekIn' = week
    /\ ops' = Append(ops, "check_recovery")
    /\ UNCHANGED <<cfg, week0, liftHistory, recentMetrics, baselineMetrics, bodyAgeDelta,
                   progNotes, storeVars, syncVars, dalVars, extVars>>

NextProg == ApplyProgression \/ CheckRecovery

SpecProg == InitProg /\ [][NextProg]_vars

\* -------------------------------------------------------- plan_builder.py

\* Largest start_date build_block is called with; the start dates 1 .. MaxStart
\* fall on every day of the week.
MaxStart == 7

\* Plan-builder thresholds (config.py): minutes asleep, beats per minute.
RECOVERY_SLEEP_THRESHOLD_MINUTES == 420
RECOVERY_RHR_THRESHOLD == 60

DayNames == <<"Mon", "Tue", "Wed", "Thu", "Fri", "Sat", "Sun">>

\* date.weekday() of the date with ordinal d: ordinal 1 is a Monday (0).
weekday(d) == (d + 6) % 7

\* d.strftime("%a")
strftime_a(d) == DayNames[weekday(d) + 1]

\* Lines 23-24: one value per record of the window, None where a key is missing.
RhrsOf(metrics) == [k \in DOMAIN metrics |-> metrics[k].resting]
SleepsOf(metrics) == [k \in DOMAIN metrics |-> metrics[k].asleep]

\* Lines 26-27: mean([v for v in values if v is not None]) if values else None.
\* statistics.mean raises StatisticsError for an empty list.
plan_mean(values) ==
    IF values = <<>> THEN [raised |-> FALSE, value |-> None]
    ELSE IF NotNone(values) = <<>> THEN [raised |-> TRUE, value |-> None]
    ELSE [raised |-> FALSE, value |-> Some(mean(NotNone(values)))]

\* Lines 29-35: recovery_good
plan_recovery_good(lift_log, avg_sleep, avg_rhr) ==
    /\ lift_log # EmptyDict
    /\ avg_sleep # None
    /\ RatLeq(Rat(RECOVERY_SLEEP_THRESHOLD_MINUTES, 1), avg_sleep[1])
    /\ avg_rhr # None
    /\ RatLeq(avg_rhr[1], Rat(RECOVERY_RHR_THRESHOLD, 1))

\* Line 37: heavy_days
heavy_days(good) == IF good THEN {"Mon", "Thu"} ELSE {"Tue", "Fri"}

\* Lines 46-52: the one session of a day.
plan_session(day_name, heavy) ==
    IF day_name \in {"Mon", "Tue", "Thu", "Fri"}
      THEN [type |-> "weights",
            intensity |-> IF day_name \in heavy THEN "heavy" ELSE "moderate",
            exercises |-> <<>>]
    ELSE IF day_name = "Wed"
      THEN [type |-> "hiit", name |-> "Blaze", duration_min |-> 45]
    ELSE [type |-> "rest"]

\* Lines 43-53: the entry of day_offset in week week_index.
plan_day(start_date, week_index, day_offset, heavy) ==
    LET d == start_date + ((week_index - 1) * 7 + day_offset)
    IN  [date |-> isoformat(d), week |-> week_index, day |-> strftime_a(d),
         sessions |-> <<plan_session(strftime_a(d), heavy)>>]

\* Lines 39-56: the plan for a set of heavy days.
plan_of(start_date, heavy) ==
    [start |-> isoformat(start_date),
     weeks |-> [w \in 1 .. 4 |->
                  [week_index |-> w,
                   days |-> [o \in 1 .. 7 |-> plan_day(start_date, w, o - 1, heavy)]]]]

\* build_block(dal, start_date) with lift_log = dal.load_lift_log() and
\* recent_metrics = dal.get_historical_metrics(7): the exception raised, or the
\* plan that is handed to dal.save_training_plan and returned.
build_block(lift_log, recent_metrics, start_date) ==
    LET avg_rhr == plan_mean(RhrsOf(recent_metrics))
        avg_sleep == plan_mean(SleepsOf(recent_metrics))
    IN  IF avg_rhr.raised \/ avg_sleep.raised
          THEN [raised |-> Some("StatisticsError"), plan |-> None]
        ELSE [raised |-> None,
              plan |-> Some(plan_of(start_date,
                                    heavy_days(plan_recovery_good(lift_log,
                                                   avg_sleep.value, avg_rhr.value))))]

\* JsonDal.save_training_plan(plan, start_date): plan_<iso>.json is written.
save_training_plan(files, plan_, start_date) == DictPut(files, isoformat(start_date), plan_)

\* What get_historical_metrics(7) can return to the plan builder.
PlanWindows ==
    RecentWindows \cup { Rep(MetricDay(Some(55), Some(450)), 7),
                         Rep(MetricDay(Some(70), Some(450)), 7) }

InitPlan ==
    /\ InitStore
    /\ InitNoWeek
    /\ InitOrchIdle
    /\ InitNoRace
    /\ startDate \in 1 .. MaxStart
    /\ plan = None
    /\ planRaised = None
    /\ built = FALSE

\* plan = build_block(dal, start_date) against the flat-file backend.
BuildBlock ==
    /\ ~built
    /\ \E lift_log \in LiftHistories, recent_metrics \in PlanWindows :
         LET r == build_block(lift_log, recent_metrics, startDate)
         IN  /\ plan' = r.plan
             /\ planRaised' = r.raised
             /\ planFiles' = IF r.raised = None
                               THEN save_training_plan(planFiles, r.plan[1], startDate)
                             ELSE planFiles
             /\ liftHistory' = lift_log
             /\ recentMetrics' = recent_metrics
    /\ built' = TRUE
    /\ UNCHANGED <<startDate, storeVars, syncVars, dalVars, raceVars>>
    /\ UNCHANGED <<cfg, week, week0, baselineMetrics, bodyAgeDelta, phase, progNotes,
                   recoveryNotes, validationLog, weekIn, ops>>
    /\ UNCHANGED <<weekFiles, orchPc, orchOp, orchPath, orchRaised, currentStartDate,
                   atCall>>

NextPlan == BuildBlock

SpecPlan == InitPlan /\ [][NextPlan]_vars

\* -------------------------------------------------------- orchestrator.py

\* Largest number of requests the orchestrator serves in one behaviour.
MaxRequests == 2

\* The retries default of run_sync_with_retries, which the orchestrator calls
\* without arguments.
DefaultRetries == 3

\* The week_index arguments: a week every 4-week plan holds, and one it lacks.
WeekIndexes == {1, 5}

\* integrations.wger.plan_next_block.build_block(start_date), the builder
\* run_cycle calls: {"start": ..., "days": [...]} with the 28 day entries in one
\* list and no "weeks" key.  The sessions of a day are left out: the
\* orchestrator looks up plan["weeks"] before it reads any of them.
legacy_build_block(start_date) ==
    [start |-> isoformat(start_date),
     days |-> [k \in 1 .. 28 |->
                 [date |-> isoformat(start_date + (k - 1)),
                  week |-> ((k - 1) \div 7) + 1,
                  day |-> strftime_a(start_date + (k - 1))]]]

\* plan_path.exists() for plans_dir / f"plan_{self.current_start_date}.json"
plan_path_exists(files, current_start_date) ==
    current_start_date # None /\ current_start_date[1] \in DOMAIN files

\* next((w for w in plan["weeks"] if w["week_index"] == week_index), None)
find_week(plan_, week_index) ==
    LET hits == SelectSeq(plan_.weeks, LAMBDA w : w.week_index = week_index)
    IN  IF hits = <<>> THEN None ELSE Some(hits[1])

\* Line 112, progression.apply_progression(week, lift_history), against
\* apply_progression(dal, week, lift_history=None): dal is bound to the week
\* dict and lift_history to None, so progression.py:22 calls load_lift_log on a
\* dict and AttributeError is raised before anything is adjusted.
orch_apply_progression(wk, lift_history) == [raised |-> Some("AttributeError")]

\* The summaries of the last `days` dates as the recovery code reads them:
\* apple.heart_rate.resting and apple.sleep.asleep, None where missing.
StoreMetrics(file, days) ==
    LET window == json_get_historical_metrics(file, days)
    IN  [k \in DOMAIN window |->
            MetricDay(DictGet(DictGet(window[k], "apple", EmptyDict),
                              "heart_rate_resting", None),
                      DictGet(DictGet(window[k], "apple", EmptyDict),
                              "sleep_asleep", None))]

\* validate_and_push_next_week after the sync call of line 90 returned synced:
\* the way it ends and the exception it raises.  No path reaches line 126.
validate_and_push_next_week(synced, files, current_start_date, week_index, lift_history) ==
    IF ~synced THEN [path |-> "sync failed", raised |-> None]
    ELSE IF ~plan_path_exists(files, current_start_date)
      THEN [path |-> "no plan", raised |-> None]
    ELSE IF "weeks" \notin DOMAIN files[current_start_date[1]]
      THEN [path |-> "raised", raised |-> Some("KeyError")]
    ELSE IF find_week(files[current_start_date[1]], week_index) = None
      THEN [path |-> "no week", raised |-> None]
    ELSE [path |-> "raised",
          raised |-> orch_apply_progression(
                         find_week(files[current_start_date[1]], week_index)[1],
                         lift_history).raised]

\* The first statement of every request: sync.run_sync_with_retries().
BeginRequest(name, week_index) ==
    /\ orchPc \in {"idle", "returned"}
    /\ runs < MaxRequests
    /\ orchOp' = [name |-> name, week_index |-> week_index]
    /\ orchPc' = "syncing"
    /\ orchPath' = ""
    /\ orchRaised' = None
    /\ atCall' = [store |-> storeVars, plans |-> planFiles, weeks |-> weekFiles,
                  log |-> validationLog]
    /\ retries' = DefaultRetries
    /\ i' = 0
    /\ pc' = "loop"
    /\ result' = None
    /\ calls' = 0
    /\ successes' = 0
    /\ sleeps' = 0
    /\ runs' = runs + 1
    /\ UNCHANGED <<today, storeVars, lastAttempt, prevSync, dalVars, progVars, planVars,
                   raceVars, planFiles, weekFiles, currentStartDate>>

\* What WgerClient.get_logs returns to a sync the orchestrator starts: it raises,
\* or returns no row, or one row.
OrchWgerOutcomes(day) ==
    { [ok |-> FALSE, logs |-> <<>>],
      [ok |-> TRUE, logs |-> <<>>],
      [ok |-> TRUE,
       logs |-> << [exercise_id |-> 1, weight |-> 100, reps |-> 5, rir |-> Some(1),
                    date |-> day] >>] }

\* One iteration of the loop of run_sync_with_retries inside a request:
\* success, failed = run_sync(dal).
OrchAttempt ==
    /\ orchPc = "syncing"
    /\ pc = "loop"
    /\ i < LoopBound(retries)
    /\ \E w \in FetchOutcomes(WithingsData), a \in FetchOutcomes(AppleData),
          g \in OrchWgerOutcomes(today) :
         \E failAt \in 0..Len(g.logs) :
            LET r == run_sync(dailyFiles, historyFile, liftLogFile, today, w, a, g, failAt)
            IN  /\ dailyFiles' = r.daily
                /\ historyFile' = r.history
                /\ liftLogFile' = r.lift
                /\ lastAttempt' = Some(AttemptRecord(r, today, w, a, g))
                /\ calls' = calls + 1
                /\ successes' = successes + (IF r.ok THEN 1 ELSE 0)
                /\ pc' = AfterAttempt(r.ok)
                /\ result' = IF AfterAttempt(r.ok) = "done" THEN Some(TRUE) ELSE None
    /\ UNCHANGED <<today, retries, i, sleeps, runs, prevSync, otherVars>>

\* PeteE.validate_and_push_next_week(week_index) is called.
ValidateAndPushNextWeek ==
    \E week_index \in WeekIndexes : BeginRequest("validate_and_push_next_week", week_index)

\* PeteE.send_daily_feedback() is called.
SendDailyFeedback == BeginRequest("send_daily_feedback", 0)

\* PeteE.send_weekly_feedback() is called.
SendWeeklyFeedback == BeginRequest("send_weekly_feedback", 0)

\* PeteE.run_cycle() is called (start_date defaults to today).
RunCycle == BeginRequest("run_cycle", 0)

\* validate_and_push_next_week from line 90 on, once the sync call has returned.
ValidateReturn ==
    /\ orchPc = "syncing"
    /\ pc = "done"
    /\ orchOp.name = "validate_and_push_next_week"
    /\ LET r == validate_and_push_next_week(result = Some(TRUE), planFiles,
                    currentStartDate, orchOp.week_index, json_load_lift_log(liftLogFile))
       IN  /\ orchPath' = r.path
           /\ orchRaised' = r.raised
    /\ orchPc' = "returned"
    /\ UNCHANGED <<storeVars, syncVars, dalVars, progVars, planVars, raceVars, planFiles,
                   weekFiles, orchOp, currentStartDate, atCall>>

\* send_daily_feedback / send_weekly_feedback once the sync call has returned:
\* return on failure, else load the history and log the narrative.
FeedbackReturn ==
    /\ orchPc = "syncing"
    /\ pc = "done"
    /\ orchOp.name \in {"send_daily_feedback", "send_weekly_feedback"}
    /\ orchPath' = IF result = Some(TRUE) THEN "reported" ELSE "sync failed"
    /\ orchPc' = "returned"
    /\ UNCHANGED <<storeVars, syncVars, dalVars, progVars, planVars, raceVars, planFiles,
                   weekFiles, orchOp, orchRaised, currentStartDate, atCall>>

\* run_cycle once the sync call has returned: return on failure, else build the
\* block and write plan_<start>.json.
CycleReturn ==
    /\ orchPc = "syncing"
    /\ pc = "done"
    /\ orchOp.name = "run_cycle"
    /\ IF result = Some(TRUE)
         THEN /\ currentStartDate' = Some(isoformat(today))
              /\ planFiles' = DictPut(planFiles, isoformat(today), legacy_build_block(today))
              /\ orchPath' = "saved"
       ELSE /\ UNCHANGED <<currentStartDate, planFiles>>
            /\ orchPath' = "sync failed"
    /\ orchPc' = "returned"
    /\ UNCHANGED <<storeVars, syncVars, dalVars, progVars, planVars, raceVars, weekFiles,
                   orchOp, orchRaised, atCall>>

\* plan_builder.build_block(dal, start_date) for the cycle that has been started,
\* between two requests: it reads the flat-file backend and, unless it raises,
\* overwrites plan_<start>.json.
PlanCycle ==
    /\ orchPc \in {"idle", "returned"}
    /\ currentStartDate = Some(isoformat(today))
    /\ ~built
    /\ LET r == build_block(json_load_lift_log(liftLogFile), StoreMetrics(historyFile, 7),
                            today)
       IN  /\ plan' = r.plan
           /\ planRaised' = r.raised
           /\ planFiles' = IF r.raised = None
                             THEN save_training_plan(planFiles, r.plan[1], today)
                           ELSE planFiles
    /\ startDate' = today
    /\ built' = TRUE
    /\ orchPc' = "idle"
    /\ UNCHANGED <<storeVars, syncVars, dalVars, progVars, raceVars, weekFiles, orchOp,
                   orchPath, orchRaised, currentStartDate, atCall>>

NextOrch ==
    \/ ValidateAndPushNextWeek
    \/ SendDailyFeedback
    \/ SendWeeklyFeedback
    \/ RunCycle
    \/ OrchAttempt
    \/ Sleep
    \/ Exhaust
    \/ ValidateReturn
    \/ FeedbackReturn
    \/ CycleReturn
    \/ PlanCycle

SpecOrch == Init /\ [][NextOrch]_vars

\* ------------------------------------ JsonDal used by two processes at once

\* The save calls a process can make against the flat-file backend.
StrengthCalls ==
    { [op |-> "save_strength_log_entry", exercise_id |-> e, log_date |-> 9, reps |-> 5,
       weight_kg |-> 100, rir |-> Some(1)] : e \in {1, 2} }

DailyCalls ==
    { [op |-> "save_daily_summary", summary |-> s, day |-> d]
        : s \in { [withings |-> w, apple |-> a] : w \in WithingsData, a \in AppleData },
          d \in Days }

\* The positions of a process that is inside a save call.
InCall == {"loaded", "daily written"}

\* save_strength_log_entry up to line 44: log = self.load_lift_log()
RaceStrengthLoad ==
    \E p \in Procs, c \in StrengthCalls :
        /\ rpc[p] = "idle"
        /\ rcall' = [rcall EXCEPT ![p] = Some(c)]
        /\ rlocal' = [rlocal EXCEPT ![p] = read_json(liftLogFile)]
        /\ rpc' = [rpc EXCEPT ![p] = "loaded"]
        /\ overlapped' = (overlapped \/ \E q \in Procs \ {p} : rpc[q] \in InCall)
        /\ UNCHANGED <<storeVars, returnedCalls>>
        /\ UNCHANGED <<syncVars, dalVars, progVars, planVars, orchVars>>

\* save_strength_log_entry, lines 45-55: append to the loaded log, write the
\* whole log back, return.
RaceStrengthSave ==
    \E p \in Procs :
        /\ rpc[p] = "loaded"
        /\ rcall[p][1].op = "save_strength_log_entry"
        /\ liftLogFile' =
             write_json(JsonAppendEntry(rlocal[p], rcall[p][1].exercise_id,
                                        rcall[p][1].log_date, rcall[p][1].reps,
                                        rcall[p][1].weight_kg, rcall[p][1].rir))
        /\ rpc' = [rpc EXCEPT ![p] = "returned"]
        /\ returnedCalls' = Append(returnedCalls, rcall[p][1])
        /\ UNCHANGED <<dailyFiles, historyFile, rcall, rlocal, overlapped>>
        /\ UNCHANGED <<syncVars, dalVars, progVars, planVars, orchVars>>

\* save_daily_summary, lines 65-66: the daily file of the date is written.
RaceDailyWrite ==
    \E p \in Procs, c \in DailyCalls :
        /\ rpc[p] = "idle"
        /\ rcall' = [rcall EXCEPT ![p] = Some(c)]
        /\ dailyFiles' = JsonSaveDaily(dailyFiles, c.summary, c.day)
        /\ rpc' = [rpc EXCEPT ![p] = "daily written"]
        /\ overlapped' = (overlapped \/ \E q \in Procs \ {p} : rpc[q] \in InCall)
        /\ UNCHANGED <<historyFile, liftLogFile, rlocal, returnedCalls>>
        /\ UNCHANGED <<syncVars, dalVars, progVars, planVars, orchVars>>

\* save_daily_summary, line 67: history = self.load_history()
RaceDailyLoad ==
    \E p \in Procs :
        /\ rpc[p] = "daily written"
        /\ rlocal' = [rlocal EXCEPT ![p] = read_json(historyFile)]
        /\ rpc' = [rpc EXCEPT ![p] = "loaded"]
        /\ UNCHANGED <<storeVars, rcall, returnedCalls, overlapped>>
        /\ UNCHANGED <<syncVars, dalVars, progVars, planVars, orchVars>>

\* save_daily_summary, lines 68-69: assign into the loaded history, write the
\* whole history back, return.
RaceDailySave ==
    \E p \in Procs :
        /\ rpc[p] = "loaded"
        /\ rcall[p][1].op = "save_daily_summary"
        /\ historyFile' =
             write_json(JsonPutSummary(rlocal[p], rcall[p][1].summary, rcall[p][1].day))
        /\ rpc' = [rpc EXCEPT ![p] = "returned"]
        /\ returnedCalls' = Append(returnedCalls, rcall[p][1])
        /\ UNCHANGED <<dailyFiles, liftLogFile, rcall, rlocal, overlapped>>
        /\ UNCHANGED <<syncVars, dalVars, progVars, planVars, orchVars>>

NextRace ==
    \/ RaceStrengthLoad
    \/ RaceStrengthSave
    \/ RaceDailyWrite
    \/ RaceDailyLoad
    \/ RaceDailySave

SpecRace == Init /\ [][NextRace]_vars

\* -------------------------------------------------------- properties

\* C1: if any source fails during a run_sync attempt, the attempt is marked
\* failed and nothing is persisted through the storage layer in that attempt:
\* no save_daily_summary call and no strength-log append.
C1_FailedAttemptPersistsNothing ==
    lastAttempt # None =>
        LET att == lastAttempt[1]
        IN  (~att.w.ok \/ ~att.a.ok \/ ~att.g.ok) => (~att.ok /\ att.writes = <<>>)

\* C2 as stated: run_sync_with_retries calls run_sync at most retries+1 times,
\* and exactly retries+1 times when every attempt fails.
C2_CallsUpToRetriesPlusOne ==
    /\ calls <= retries + 1
    /\ (pc = "done" /\ result = Some(FALSE)) => calls = retries + 1

\* C2 amended: run_sync_with_retries calls run_sync at most retries times,
\* and exactly retries times when every attempt fails.
C2_CallsUpToRetries ==
    /\ calls <= retries
    /\ (pc = "done" /\ result = Some(FALSE)) => calls = retries

C2_Witness ==
    pc = "done" /\ result = Some(FALSE) /\ retries >= 2 /\ calls = retries

SavedDates == {d \in Days : saved[d] # None}

\* C5: save_daily_summary is an upsert keyed by date with read-your-write: the
\* store holds exactly one DailySummary per saved date; get_daily_summary(d),
\* load_history()[d.isoformat()] and get_historical_data(d, d) all give the
\* summary most recently saved for d (None / absent / empty if d was never
\* saved); a save for d leaves every other date as it was.
C5_UpsertReadYourWrite ==
    LET history == json_load_history(historyFile)
    IN  /\ Cardinality(DOMAIN history) = Cardinality(SavedDates)
        /\ Cardinality(DOMAIN dailyFiles) = Cardinality(SavedDates)
        /\ \A d \in Days :
            /\ json_get_daily_summary(dailyFiles, d) = saved[d]
            /\ json_get_historical_data(dailyFiles, d, d) = saved[d]
            /\ (isoformat(d) \in DOMAIN history) <=> (saved[d] # None)
            /\ saved[d] # None => history[isoformat(d)] = saved[d][1]

C5_Witness ==
    /\ overwrote
    /\ Cardinality(SavedDates) >= 2
    /\ \E d \in Days : saved[d] # None /\ json_get_daily_summary(dailyFiles, d) = saved[d]

\* The n most recently dated saved summaries, oldest first.
MostRecent(n) ==
    LET ds == LimitLast(DatesAsc(SavedDates), n)
    IN  [k \in 1..Len(ds) |-> saved[ds[k]][1]]

\* C6: for every n >= 0, get_historical_metrics(n) returns at most n records,
\* the summaries of the most recent dates in ascending date order, fewer than
\* n only if the history holds fewer dates, and the empty sequence on an
\* empty history.
C6_AtMostNMostRecent ==
    \A n \in 0..(NumDays + 1) :
        LET got == json_get_historical_metrics(historyFile, n)
        IN  /\ Len(got) <= n
            /\ got = MostRecent(n)

\* C8: JsonDal and PostgresDal are interchangeable: after any sequence of
\* contract operations applied to both from the empty state every read accessor
\* returns equal values on both.
C8_BackendsInterchangeable ==
    /\ json_load_history(historyFile) = pg_load_history(pgDaily)
    /\ json_load_lift_log(liftLogFile) = pg_load_lift_log(pgStrength)
    /\ \A d \in Days :
        json_get_daily_summary(dailyFiles, d) = pg_get_daily_summary(pgDaily, d)
    /\ \A n \in 0..(NumDays + 1) :
        json_get_historical_metrics(historyFile, n) = pg_get_historical_metrics(pgDaily, n)
    /\ \A a \in Days, b \in Days :
        json_get_historical_data(dailyFiles, a, b) = pg_get_historical_data(pgDaily, a, b)

\* C9: after any sequence of strength-log appends, with dates in any order,
\* every exercise's entries as load_lift_log returns them are non-decreasing
\* by date.
C9_LiftLogSortedByDate ==
    LET log == json_load_lift_log(liftLogFile)
    IN  \A e \in DOMAIN log :
            \A k \in 1..(Len(log[e]) - 1) : ~StrLess(log[e][k + 1].date, log[e][k].date)

\* C7: any failure inside a storage operation (I/O error, malformed file,
\* connection loss) reaches the caller as a typed StorageError and is never
\* swallowed; only an absent file is treated as empty state without an error.
C7_FailuresRaiseStorageError ==
    lastOp # None =>
        LET o == lastOp[1]
        IN  /\ o.fault \in {"io_error", "malformed", "connection_lost"}
                => o.outcome = "raised StorageError"
            /\ o.fault = "absent"
                => (o.outcome = "returned" /\ o.value \in {Some(EmptyDict), None})

\* C10: every exercise of a weights session whose weight_target is > 0 before
\* an adjustment still has a weight_target > 0 after apply_progression and after
\* check_recovery, whatever PROGRESSION_DECREMENT and GLOBAL_BACKOFF_FACTOR are
\* configured.
C10_WeightTargetStaysPositive ==
    phase # "planned" =>
        \A d \in DOMAIN week0.days :
            \A s \in DOMAIN week0.days[d] :
                week0.days[d][s].type = "weights" =>
                    \A e \in DOMAIN week0.days[d][s].exercises :
                        LET before == week0.days[d][s].exercises[e].weight_target
                            after == week.days[d][s].exercises[e].weight_target
                        IN  (before # None /\ before[1] > 0)
                                => (after # None /\ after[1] > 0)

\* ----- properties of the progression engine and the recovery validator

\* The positions <<day, session, exercise>> of the exercises of weights sessions.
WeightsPositions(wk) ==
    { p \in UNION { UNION { { <<d, s, e>> : e \in DOMAIN ExercisesOf(wk.days[d][s]) }
                            : s \in DOMAIN wk.days[d] }
                    : d \in DOMAIN wk.days } :
        wk.days[p[1]][p[2]].type = "weights" }

ExerciseAt(wk, p) == wk.days[p[1]][p[2]].exercises[p[3]]

\* The last 4 logged entries of an exercise in a lift history, their recorded
\* weights and their recorded RIR values.
Last4(history, id) ==
    LET all == IF str(id) \in DOMAIN history THEN history[str(id)] ELSE <<>>
    IN  IF Len(all) <= 4 THEN all ELSE SubSeq(all, Len(all) - 3, Len(all))

Last4Weights(history, id) ==
    LET l == Last4(history, id)
    IN  NotNone([k \in DOMAIN l |-> l[k].weight])

Last4Rirs(history, id) ==
    LET l == Last4(history, id)
    IN  NotNone([k \in DOMAIN l |-> l[k].rir])

\* The average recorded weight of the last 4 entries meets the target t.
MeetsTarget(history, id, t) ==
    LET w == Last4Weights(history, id)
    IN  w # <<>> /\ SumSeq(w) >= t * Len(w)

\* The notes apply_progression emitted for exercise id.
NotesOf(id) == { k \in DOMAIN progNotes : progNotes[k].name = id }

\* The reference scenarios: target 100 kg, RHR 50 vs baseline 50 (or 60 vs 50),
\* sleep 400 vs baseline 400, default settings.
ScenarioGood ==
    /\ cfg = DefaultSettings
    /\ recentMetrics = Rep(MetricDay(Some(50), Some(400)), 7)
    /\ baselineMetrics = Rep(MetricDay(Some(50), Some(400)), 28)
    /\ ExerciseAt(week0, <<1, 1, 1>>).weight_target = Some(Kg(100))

ScenarioPoor ==
    /\ cfg = DefaultSettings
    /\ recentMetrics = Rep(MetricDay(Some(60), Some(400)), 7)
    /\ baselineMetrics = Rep(MetricDay(Some(50), Some(400)), 28)
    /\ ExerciseAt(week0, <<1, 1, 1>>).weight_target = Some(Kg(100))

ScenarioLowRir ==
    Last4(liftHistory, 1) =
        << LiftEntry(Some(Kg(100)), Some(1)), LiftEntry(Some(Kg(100)), Some(2)),
           LiftEntry(Some(Kg(100)), Some(2)), LiftEntry(Some(Kg(100)), Some(1)) >>

\* C11: apply_progression leaves the weight_target of every exercise of a
\* weights session whose id is absent from the lift log (or has an empty entry
\* list) unchanged and emits a note containing "no history" for it.
C11_NoHistoryKeepsTarget ==
    phase = "progressed" =>
        \A p \in WeightsPositions(week0) :
            LET id == ExerciseAt(week0, p).id
            IN  Last4(liftHistory, id) = <<>> =>
                    /\ ExerciseAt(week, p) = ExerciseAt(week0, p)
                    /\ \E k \in NotesOf(id) : progNotes[k].kind = "no history"

C11_Witness ==
    /\ phase = "progressed"
    /\ liftHistory = EmptyDict
    /\ ExerciseAt(week, <<1, 1, 1>>).weight_target = Some(Kg(100))
    /\ progNotes[1].kind = "no history" /\ progNotes[2].kind = "no history"

\* C12: with recovery good, the same starting weight_target and the same
\* recorded weights, a run whose last 4 entries average RIR <= 1 ends with a
\* strictly larger weight_target than a run whose last 4 entries average
\* RIR >= 2.
C12_LowRirStrictlyLarger ==
    (phase = "progressed" /\ recovery_good(cfg, recentMetrics, baselineMetrics)) =>
        \A p \in WeightsPositions(week0) : \A other \in LiftHistories :
            LET id == ExerciseAt(week0, p).id
                mine == Last4Rirs(liftHistory, id)
                theirs == Last4Rirs(other, id)
                run2 == apply_progression(cfg, recentMetrics, baselineMetrics, week0, other)
            IN  ( /\ Last4Weights(liftHistory, id) # <<>>
                  /\ Last4Weights(liftHistory, id) = Last4Weights(other, id)
                  /\ mine # <<>> /\ SumSeq(mine) <= 2 * Len(mine)
                  /\ theirs # <<>> /\ SumSeq(theirs) >= 4 * Len(theirs) )
                => ExerciseAt(week, p).weight_target[1]
                       > ExerciseAt(run2.week, p).weight_target[1]

\* C12 as the code has it: under the same conditions the run with average
\* RIR <= 1 never ends with a smaller weight_target, and ends with a strictly
\* larger one when the average recorded weight meets the target (or no target
\* is set) and the target is at least 1 kg; recorded weights short of the
\* target make both runs back off by the same decrement.
C12_LowRirNeverSmaller ==
    (phase = "progressed" /\ recovery_good(cfg, recentMetrics, baselineMetrics)) =>
        \A p \in WeightsPositions(week0) : \A other \in LiftHistories :
            LET ex == ExerciseAt(week0, p)
                mine == Last4Rirs(liftHistory, ex.id)
                theirs == Last4Rirs(other, ex.id)
                run2 == apply_progression(cfg, recentMetrics, baselineMetrics, week0, other)
                low == ExerciseAt(week, p).weight_target[1]
                high == ExerciseAt(run2.week, p).weight_target[1]
            IN  ( /\ Last4Weights(liftHistory, ex.id) # <<>>
                  /\ Last4Weights(liftHistory, ex.id) = Last4Weights(other, ex.id)
                  /\ mine # <<>> /\ SumSeq(mine) <= 2 * Len(mine)
                  /\ theirs # <<>> /\ SumSeq(theirs) >= 4 * Len(theirs) )
                => /\ low >= high
                   /\ ( \/ ex.weight_target = None
                        \/ /\ ex.weight_target[1] >= Kg(1)
                           /\ MeetsTarget(liftHistory, ex.id, ex.weight_target[1]) )
                        => low > high

C12_Witness ==
    /\ phase = "progressed" /\ ScenarioGood /\ ScenarioLowRir
    /\ ExerciseAt(week, <<1, 1, 1>>).weight_target = Some(1075000)
    /\ LET other == DictPut(EmptyDict, str(1), Rep(LiftEntry(Some(Kg(100)), Some(4)), 4))
       IN  /\ other \in LiftHistories
           /\ ExerciseAt(apply_progression(cfg, recentMetrics, baselineMetrics, week0,
                                           other).week, <<1, 1, 1>>).weight_target
                  = Some(1025000)

\* The 7-day resting-HR average is above baseline * (1 + RHR_ALLOWED_INCREASE).
RhrAboveLimit ==
    LET r == RestingOf(recentMetrics)
        b == RestingOf(baselineMetrics)
    IN  /\ r # <<>> /\ b # <<>>
        /\ SumSeq(r) * Len(b) * 100 > SumSeq(b) * (100 + cfg.RHR_ALLOWED_INCREASE) * Len(r)

\* The 7-day sleep average is below baseline * SLEEP_ALLOWED_DECREASE.
SleepBelowLimit ==
    LET r == AsleepOf(recentMetrics)
        b == AsleepOf(baselineMetrics)
    IN  /\ r # <<>> /\ b # <<>>
        /\ SumSeq(r) * Len(b) * 100 < SumSeq(b) * cfg.SLEEP_ALLOWED_DECREASE * Len(r)

\* The same week and lift history progressed with RHR 50 vs 50, sleep 400 vs 400.
GoodRun ==
    apply_progression(cfg, Rep(MetricDay(Some(50), Some(400)), 7),
                      Rep(MetricDay(Some(50), Some(400)), 28), week0, liftHistory)

\* C13: with identical lift history and starting weight_target, a run with the
\* 7-day RHR average above baseline * (1 + RHR_ALLOWED_INCREASE) ends, for every
\* exercise, with a weight_target lower than or equal to that of the run with
\* recovery good.
C13_PoorRecoveryNeverHigher ==
    (phase = "progressed" /\ RhrAboveLimit) =>
        \A p \in WeightsPositions(week0) :
            LET poor == ExerciseAt(week, p).weight_target
                good == ExerciseAt(GoodRun.week, p).weight_target
            IN  IF poor = None \/ good = None THEN poor = good
                ELSE poor[1] <= good[1]

C13_Witness ==
    /\ phase = "progressed" /\ RhrAboveLimit
    /\ \E p \in WeightsPositions(week0) :
        /\ ExerciseAt(week, p).weight_target # None
        /\ ExerciseAt(week, p).weight_target[1]
               < ExerciseAt(GoodRun.week, p).weight_target[1]

\* C14: with recovery good, average recorded weight of the last 4 entries >=
\* weight_target and their average RIR <= 1, weight_target becomes
\* round(target * (1 + 1.5 * PROGRESSION_INCREMENT), 2) with a note holding the
\* applied percentage and "recovery good"; 100 becomes 107.5 with "+7.5%".
C14_LowRirProgression ==
    (phase = "progressed" /\ recovery_good(cfg, recentMetrics, baselineMetrics)) =>
        /\ \A p \in WeightsPositions(week0) :
            LET ex == ExerciseAt(week0, p)
                rirs == Last4Rirs(liftHistory, ex.id)
            IN  ( /\ ex.weight_target # None
                  /\ MeetsTarget(liftHistory, ex.id, ex.weight_target[1])
                  /\ rirs # <<>> /\ SumSeq(rirs) <= 2 * Len(rirs) )
                => /\ ExerciseAt(week, p).weight_target =
                          Some(round2(Rat(ex.weight_target[1]
                                            * (200 + 3 * cfg.PROGRESSION_INCREMENT), 200)))
                   /\ \E k \in NotesOf(ex.id) :
                        /\ progNotes[k].kind = "+"
                        /\ progNotes[k].pct =
                               Some(format1f(Rat(3 * cfg.PROGRESSION_INCREMENT, 2)))
                        /\ progNotes[k].detail.recovery = "good"
        /\ (ScenarioGood /\ ScenarioLowRir) =>
            /\ ExerciseAt(week, <<1, 1, 1>>).weight_target = Some(1075000)
            /\ progNotes[1].kind = "+" /\ progNotes[1].pct = Some(75)
            /\ progNotes[1].detail.recovery = "good"

C14_Witness ==
    /\ phase = "progressed" /\ ScenarioGood /\ ScenarioLowRir
    /\ ExerciseAt(week, <<1, 1, 1>>).weight_target = Some(1075000)

\* C15: when recovery is assessed as poor the increment is halved and the
\* decrement multiplied by 1.5 before they are applied; the low-RIR scenario
\* with RHR 60 vs baseline 50 gives 103.75 and a note with "recovery poor".
C15_PoorRecoveryAdjustment ==
    (phase = "progressed" /\ ~recovery_good(cfg, recentMetrics, baselineMetrics)) =>
        /\ \A p \in WeightsPositions(week0) :
            LET ex == ExerciseAt(week0, p)
                t == ex.weight_target[1]
                rirs == Last4Rirs(liftHistory, ex.id)
                meets == MeetsTarget(liftHistory, ex.id, t)
                after == ExerciseAt(week, p).weight_target
            IN  (ex.weight_target # None /\ Last4Weights(liftHistory, ex.id) # <<>>) =>
                    /\ (meets /\ rirs # <<>> /\ SumSeq(rirs) <= 2 * Len(rirs))
                        => after = Some(round2(Rat(t * (400 + 3 * cfg.PROGRESSION_INCREMENT),
                                                   400)))
                    /\ (meets /\ rirs = <<>>)
                        => after = Some(round2(Rat(t * (200 + cfg.PROGRESSION_INCREMENT),
                                                   200)))
                    /\ ~meets
                        => after = Some(round2(Rat(t * (200 - 3 * cfg.PROGRESSION_DECREMENT),
                                                   200)))
                    /\ \A k \in NotesOf(ex.id) : progNotes[k].detail.recovery = "poor"
        /\ (ScenarioPoor /\ ScenarioLowRir) =>
            /\ ExerciseAt(week, <<1, 1, 1>>).weight_target = Some(1037500)
            /\ progNotes[1].detail.recovery = "poor"

C15_Witness ==
    /\ phase = "progressed" /\ ScenarioPoor /\ ScenarioLowRir
    /\ ExerciseAt(week, <<1, 1, 1>>).weight_target = Some(1037500)

\* C16: with recovery good and an average RIR of the last 4 entries above 2,
\* apply_progression backs off although the lifted weight met the target:
\* weight_target becomes round(target * (1 - PROGRESSION_DECREMENT), 2) and the
\* note holds the decrement percentage; 100 becomes 95.0 with "-5.0%".
C16_HighRirBackOff ==
    (phase = "progressed" /\ recovery_good(cfg, recentMetrics, baselineMetrics)) =>
        /\ \A p \in WeightsPositions(week0) :
            LET ex == ExerciseAt(week0, p)
                rirs == Last4Rirs(liftHistory, ex.id)
            IN  ( /\ ex.weight_target # None
                  /\ MeetsTarget(liftHistory, ex.id, ex.weight_target[1])
                  /\ rirs # <<>> /\ SumSeq(rirs) > 4 * Len(rirs) )
                => /\ ExerciseAt(week, p).weight_target =
                          Some(round2(Rat(ex.weight_target[1]
                                            * (100 - cfg.PROGRESSION_DECREMENT), 100)))
                   /\ \E k \in NotesOf(ex.id) :
                        /\ progNotes[k].kind = "-"
                        /\ progNotes[k].pct = Some(10 * cfg.PROGRESSION_DECREMENT)
        /\ (ScenarioGood /\ Last4(liftHistory, 1) = Rep(LiftEntry(Some(Kg(100)), Some(6)), 4)) =>
            /\ ExerciseAt(week, <<1, 1, 1>>).weight_target = Some(950000)
            /\ progNotes[1].kind = "-" /\ progNotes[1].pct = Some(50)

C16_Witness ==
    /\ phase = "progressed" /\ ScenarioGood
    /\ Last4(liftHistory, 1) = Rep(LiftEntry(Some(Kg(100)), Some(6)), 4)
    /\ ExerciseAt(week, <<1, 1, 1>>).weight_target = Some(950000)

\* C17: when none of the last 4 entries carries RIR the decision depends only
\* on the average recorded weight against weight_target and on recovery: with
\* recovery good, average weight >= target raises the target by exactly
\* PROGRESSION_INCREMENT (100 becomes 105.0), average weight < target lowers it
\* by PROGRESSION_DECREMENT, and the note contains "no RIR".
C17_NoRirFallback ==
    (phase = "progressed" /\ recovery_good(cfg, recentMetrics, baselineMetrics)) =>
        /\ \A p \in WeightsPositions(week0) :
            LET ex == ExerciseAt(week0, p)
                t == ex.weight_target[1]
                after == ExerciseAt(week, p).weight_target
            IN  ( /\ ex.weight_target # None
                  /\ Last4Weights(liftHistory, ex.id) # <<>>
                  /\ Last4Rirs(liftHistory, ex.id) = <<>> )
                => /\ IF MeetsTarget(liftHistory, ex.id, t)
                        THEN after = Some(round2(Rat(t * (100 + cfg.PROGRESSION_INCREMENT),
                                                     100)))
                      ELSE after = Some(round2(Rat(t * (100 - cfg.PROGRESSION_DECREMENT),
                                                   100)))
                   /\ \A k \in NotesOf(ex.id) :
                        /\ progNotes[k].detail.use_rir = FALSE
                        /\ progNotes[k].kind = IF MeetsTarget(liftHistory, ex.id, t)
                                                 THEN "+" ELSE "-"
        /\ (ScenarioGood /\ Last4(liftHistory, 1) = Rep(LiftEntry(Some(Kg(100)), None), 4)) =>
            ExerciseAt(week, <<1, 1, 1>>).weight_target = Some(1050000)

C17_Witness ==
    /\ phase = "progressed" /\ ScenarioGood
    /\ Last4(liftHistory, 1) = Rep(LiftEntry(Some(Kg(100)), None), 4)
    /\ ExerciseAt(week, <<1, 1, 1>>).weight_target = Some(1050000)
    /\ progNotes[1].detail.use_rir = FALSE

\* The latest operation on the week was check_recovery.
ValidatedLast == ops # <<>> /\ ops[Len(ops)] = "check_recovery"

\* Every exercise of every weights session carries a weight_target.
AllTargeted(wk) ==
    \A p \in WeightsPositions(wk) : ExerciseAt(wk, p).weight_target # None

\* At least one of the three back-off rules fires.
AnyRuleFires ==
    RhrAboveLimit \/ SleepBelowLimit \/ bodyAgeDelta > cfg.BODY_AGE_ALLOWED_INCREASE

C19_NoteForEveryDecision ==
    /\ (ops # <<>> /\ ops[1] = "apply_progression") =>
        /\ Len(progNotes) = Cardinality(WeightsPositions(week0))
        /\ \A p \in WeightsPositions(week0) :
            Cardinality(NotesOf(ExerciseAt(week0, p).id)) = 1
    /\ phase = "validated" =>
        \A rule \in {"rhr", "sleep", "body_age"} :
            \E k \in DOMAIN recoveryNotes : recoveryNotes[k].rule = rule

C21_BuildBlockReturnsSkeleton ==
    built =>
        /\ planRaised = None
        /\ plan # None
        /\ Len(plan[1].weeks) = 4
        /\ \A w \in 1 .. 4 :
             LET wk == plan[1].weeks[w]
             IN  /\ wk.week_index = w
                 /\ Len(wk.days) = 7
                 /\ \A o \in 1 .. 7 :
                      LET d == startDate + 7 * (w - 1) + (o - 1)
                          entry == wk.days[o]
                          name == DayNames[weekday(d) + 1]
                      IN  /\ entry.date = isoformat(d)
                          /\ Len(entry.sessions) = 1
                          /\ entry.sessions[1].type =
                               (IF name \in {"Mon", "Tue", "Thu", "Fri"} THEN "weights"
                                ELSE IF name = "Wed" THEN "hiit" ELSE "rest")
                          /\ entry.sessions[1].type = "weights"
                               => entry.sessions[1].exercises = <<>>
                 /\ Cardinality({ o \in 1 .. 7 :
                                    /\ wk.days[o].sessions[1].type = "weights"
                                    /\ wk.days[o].sessions[1].intensity = "heavy" }) = 2

\* The request validate_and_push_next_week has returned or raised.
ValidateReturned == orchPc = "returned" /\ orchOp.name = "validate_and_push_next_week"

\* The plan persisted for the current cycle when the request began.
PlanAtCall ==
    IF plan_path_exists(atCall.plans, currentStartDate)
      THEN Some(atCall.plans[currentStartDate[1]])
    ELSE None

\* The week the request asked for, as the persisted plan held it.
WeekAtCall ==
    IF PlanAtCall = None \/ "weeks" \notin DOMAIN PlanAtCall[1] THEN None
    ELSE find_week(PlanAtCall[1], orchOp.week_index)

StoreNow == <<dailyFiles, historyFile, liftLogFile>>

\* C22: when sync has not succeeded, no plan is persisted for the current cycle,
\* or the plan has no week with the index, validate_and_push_next_week returns
\* (it does not raise) and has mutated nothing: plan, adjusted weeks and
\* validation log are as they were, and on the failed-sync path so is storage.
C22_FailFastMutatesNothing ==
    (ValidateReturned /\ (result = Some(FALSE) \/ WeekAtCall = None)) =>
        /\ orchRaised = None
        /\ planFiles = atCall.plans
        /\ weekFiles = atCall.weeks
        /\ validationLog = atCall.log
        /\ result = Some(FALSE) => StoreNow = atCall.store

\* C23: send_daily_feedback and send_weekly_feedback are a pure read path: when
\* the request returns, DailySummaries, history, lift log, plans, adjusted weeks
\* and validation log are what they were when it began.
C23_ReportIsPureRead ==
    (orchPc = "returned"
        /\ orchOp.name \in {"send_daily_feedback", "send_weekly_feedback"}) =>
        /\ StoreNow = atCall.store
        /\ planFiles = atCall.plans
        /\ weekFiles = atCall.weeks
        /\ validationLog = atCall.log

\* The found week in the shape the engine walks: per day its sessions.
SessionsOfWeek(wk) ==
    [week_index |-> wk.week_index, days |-> [d \in DOMAIN wk.days |-> wk.days[d].sessions]]

\* What Sync -> Progression Engine -> Recovery Validator makes of the found
\* week on the freshly synced storage.
PipelineWeek ==
    LET recent == StoreMetrics(historyFile, 7)
        baseline == StoreMetrics(historyFile, BASELINE_DAYS)
        progressed == apply_progression(cfg, recent, baseline,
                                        SessionsOfWeek(WeekAtCall[1]),
                                        json_load_lift_log(liftLogFile)).week
    IN  check_recovery(cfg, progressed, currentStartDate[1],
                       orch_average(RestingOf(baseline)), orch_average(RestingOf(recent)),
                       orch_average(AsleepOf(baseline)), orch_average(AsleepOf(recent)),
                       bodyAgeDelta).week

\* C27: a validate_and_push_next_week whose sync succeeded and whose week was
\* found runs Progression Engine, then Recovery Validator, then persists: the
\* week file holds the progression result with the global back-off applied on
\* top of it.
C27_PipelinePersistsAdjustedWeek ==
    (ValidateReturned /\ result = Some(TRUE) /\ WeekAtCall # None) =>
        /\ orchRaised = None
        /\ <<orchOp.week_index, currentStartDate[1]>> \in DOMAIN weekFiles
        /\ weekFiles[<<orchOp.week_index, currentStartDate[1]>>].days = PipelineWeek.days

\* The names of the sources whose fetch raised in an attempt, in fetch order.
FailedSources(att) ==
    (IF att.w.ok THEN <<>> ELSE <<"Withings">>)
        \o (IF att.a.ok THEN <<>> ELSE <<"Apple">>)
        \o (IF att.g.ok THEN <<>> ELSE <<"Wger">>)

\* C24: the failed list run_sync returns holds exactly the names of the sources
\* whose fetch failed in that attempt, whatever the outcome of the others, and
\* the attempt succeeds iff the list is empty.
C24_FailedListIsFailedSources ==
    lastAttempt # None =>
        /\ lastAttempt[1].failed = FailedSources(lastAttempt[1])
        /\ lastAttempt[1].ok <=> (lastAttempt[1].failed = <<>>)

\* C25: when run_sync_with_retries has returned, the number of sleeps is the
\* number of run_sync attempts minus one: no sleep follows the final attempt,
\* failed or successful.
C25_SleepsOnlyBetweenAttempts ==
    (pc = "done" /\ calls >= 1) => sleeps = calls - 1

\* A lift history with the RIR of every entry removed.
StripRir(history) ==
    [k \in DOMAIN history |->
        [n \in DOMAIN history[k] |-> [history[k][n] EXCEPT !.rir = None]]]

\* A lift history cut down to the last 4 entries of every exercise.
KeepLast4(history) ==
    [k \in DOMAIN history |-> SliceLast(history[k], 4)]

\* Some of the last 4 entries of exercise id lacks RIR.
RirMissing(history, id) ==
    \E n \in DOMAIN Last4(history, id) : Last4(history, id)[n].rir = None

\* C26: apply_progression decides from the last 4 entries of an exercise only,
\* and when any of those entries lacks RIR it decides as in the no-RIR case:
\* the exercise ends as it would with no RIR recorded at all.
C26_RirOnlyWhenOnAllEntries ==
    ops = <<"apply_progression">> =>
        /\ week = apply_progression(cfg, recentMetrics, baselineMetrics, weekIn,
                                    KeepLast4(liftHistory)).week
        /\ \A p \in WeightsPositions(weekIn) :
             RirMissing(liftHistory, ExerciseAt(weekIn, p).id) =>
                ExerciseAt(week, p) =
                    ExerciseAt(apply_progression(cfg, recentMetrics, baselineMetrics,
                                                 weekIn, StripRir(liftHistory)).week, p)

\* C29: the hold branch of apply_progression is never taken: no "no change"
\* note is ever emitted, and every exercise with a recorded weight among its
\* last 4 entries gets a progress note or a back-off note.
C29_HoldBranchUnreachable ==
    /\ \A k \in DOMAIN progNotes : progNotes[k].kind # "no change"
    /\ ops = <<"apply_progression">> =>
         \A p \in WeightsPositions(weekIn) :
            Last4Weights(liftHistory, ExerciseAt(weekIn, p).id) # <<>> =>
                \E k \in NotesOf(ExerciseAt(weekIn, p).id) :
                    progNotes[k].kind \in {"+", "-"}

\* An exercise whose lifted weight met the target but whose average RIR is
\* above 2 has been decided, and the decision was a back-off.
C29_Witness ==
    /\ ops = <<"apply_progression">>
    /\ \E p \in WeightsPositions(weekIn) :
         LET ex == ExerciseAt(weekIn, p)
             rirs == Last4Rirs(liftHistory, ex.id)
         IN  /\ ex.weight_target # None
             /\ MeetsTarget(liftHistory, ex.id, ex.weight_target[1])
             /\ rirs # <<>> /\ SumSeq(rirs) > 4 * Len(rirs)
             /\ \E k \in NotesOf(ex.id) : progNotes[k].kind = "-"

\* C30: for the same windows the two recovery assessments agree: after both
\* have run, apply_progression classified recovery as poor iff the RHR rule or
\* the sleep rule of check_recovery fired.
C30_RecoveryAssessmentsAgree ==
    (ops = <<"apply_progression", "check_recovery">> /\ phase = "validated") =>
        (~recovery_good(cfg, recentMetrics, baselineMetrics)
            <=> \E k \in DOMAIN recoveryNotes : recoveryNotes[k].rule \in {"rhr", "sleep"})

\* Every save call that has returned left its entry in the file: the lift log
\* holds one row per returned save_strength_log_entry, and history.json holds
\* the date of every returned save_daily_summary.
AllEntriesKept ==
    /\ LiftRows(liftLogFile)
         = Len(SelectSeq(returnedCalls, LAMBDA c : c.op = "save_strength_log_entry"))
    /\ \A k \in DOMAIN returnedCalls :
         returnedCalls[k].op = "save_daily_summary" =>
            isoformat(returnedCalls[k].day) \in DOMAIN read_json(historyFile)

\* C28: against the flat-file backend any serial execution of save calls by
\* two processes keeps every entry; an entry of a returned save can be missing
\* only when the calls overlapped (the state C28_Witness shows that it can).
C28_SerialKeepsBothEntries == ~overlapped => AllEntriesKept

\* Both processes have returned from their save and an entry is missing.
C28_Witness ==
    /\ \A p \in Procs : rpc[p] = "returned"
    /\ ~AllEntriesKept

====
